---- MODULE Spec2Model ----
(***************************************************************************)
(* Model of the session and anti-detection layer of src/src/client.ts:     *)
(*   - class Client: the two identity slots (auth, authTrends) and the     *)
(*     asynchronous methods login, logout, setCookies, clearCookies;       *)
(*   - class BrowserFingerprintManager: currentFingerprint, lastRotation,  *)
(*     requestCount, lastRequestTime and its methods;                      *)
(*   - generateBrowserFingerprint, the header assemblers                   *)
(*     applyBrowserHeaders / applyAdvancedBrowserHeaders and               *)
(*     getTwitterApiHeaders / getTwitterWebHeaders.                        *)
(* An asynchronous method is a process: one action for the synchronous     *)
(* part up to its first await, one action per continuation after an await. *)
(***************************************************************************)
EXTENDS Integers, Sequences, FiniteSets, TLC

(***************************************************************************)
(* Bounds of the model.                                                    *)
(***************************************************************************)
\* number of Client method calls made in one behaviour
MaxCalls == 2
\* longest cookie array handed to setCookies
MaxCookies == 2

\* fingerprints generated in one behaviour
MaxFp == 3
\* clock advances by the environment in one behaviour
MaxTicks == 3
\* waitForRequest calls made in one behaviour
MaxWaits == 3
\* the request counter is followed up to this value
MaxCount == 21
\* Date.now() when the behaviour starts
StartTime == 1000000
\* waitForRequest calls made before the getTwitterApiHeaders / getTwitterWebHeaders
\* call that is followed
MaxEarlier == 1
\* rotateBrowserFingerprint() calls and steps of the clock while that call awaits
MaxOverlapping == 1
\* page requests of one getAllQuotedTweets / getUserTweetsIterator call
MaxPages == 5

\* identity instances: two per constructor/useGuestAuth, one per login/setCookies
\* (one setCookies may have returned before the calls that are followed)
MaxInst == 3 + 2 * MaxCalls
Ids == 1..MaxInst
Calls == 1..MaxCalls

CookieKeys == {"auth_token"}
CookieVals == {"v1", "v2"}
Cookie == [key : CookieKeys, value : CookieVals]
CookieLists == UNION {[1..n -> Cookie] : n \in 0..MaxCookies}

VARIABLES
    \* ---- class Client ----
    auth,          \* this.auth: the identity in the general slot (an instance id)
    authTrends,    \* this.authTrends: the identity in the trends slot
    kind,          \* class of every constructed identity: "Guest" / "User" / "None"
    guestToken,    \* per identity: hasToken()
    jar,           \* per identity: contents of its cookieJar(), key -> value
    logouts,       \* per identity: how many times its logout() was invoked
    nextId,        \* the next identity instance to be constructed
    calls,         \* the Client method calls: their position and locals
    nextCall,      \* the next call to be made
    supplied,      \* the cookie array a caller hands to setCookies, where one array
                   \* is followed through setCookies and getCookies
    \* ---- class BrowserFingerprintManager ----
    currentFingerprint,  \* the held fingerprint, NoFingerprint for null
    lastRotation,        \* Date.now() of the last rotation, 0 before the first
    requestCount,        \* requests counted under the held fingerprint
    lastRequestTime,     \* Date.now() when the last waitForRequest ended, 0 before
    now,                 \* the clock: Date.now()
    nextFp,              \* the next fingerprint object generateBrowserFingerprint makes
    ticks,               \* how often the clock was advanced by the environment
    waits,               \* the waitForRequest calls: their position and locals
    nextWait,            \* the next waitForRequest call to be made
    \* ---- observations of the manager's calls (history) ----
    ret,                 \* the last manager step: operation and what it returned
    handed,              \* the last fingerprint getCurrentFingerprint handed out since the
                         \* last rotateFingerprint(): which, when installed, when handed out
    delayCalls,          \* the getRequestDelay calls whose delay was computed from the held
                         \* fingerprint: how many (n), how many of them found it installed
                         \* (fixed), and the count term of the last of them (term)
    \* ---- fingerprints and header sets ----
    ALL_USER_AGENTS,     \* the pool of line 1138, fixed when the module is loaded
    generated,           \* per fingerprint object of the manager: its fields, once read
    request,             \* the getTwitterApiHeaders / getTwitterWebHeaders call followed
    out                  \* the last fingerprint generated or header set assembled

clientVars == <<auth, authTrends, kind, guestToken, jar, logouts, nextId, calls, nextCall,
                supplied>>

managerVars == <<currentFingerprint, lastRotation, requestCount, lastRequestTime, now,
                 nextFp, ticks, waits, nextWait, ret, handed, delayCalls>>

headerVars == <<ALL_USER_AGENTS, generated, request, out>>

vars == <<auth, authTrends, kind, guestToken, jar, logouts, nextId, calls, nextCall,
          supplied,
          currentFingerprint, lastRotation, requestCount, lastRequestTime, now,
          nextFp, ticks, waits, nextWait, ret, handed, delayCalls,
          ALL_USER_AGENTS, generated, request, out>>

(***************************************************************************)
(* Identities (TwitterGuestAuth, TwitterUserAuth) and the cookie jar.      *)
(***************************************************************************)
EmptyJar == [k \in CookieKeys |-> "absent"]

\* CookieJar.setCookie: the jar maps a cookie key to one cookie
setCookie(j, c) == [j EXCEPT ![c.key] = c.value]

\* the login protocol of TwitterUserAuth.login: the steps that can follow `step`
LoginProtocol(step) ==
    CASE step = "Start" -> {"Success", "AwaitEmail", "AwaitTwoFactor", "Failed"}
      [] step = "AwaitEmail" -> {"Success", "Failed"}
      [] step = "AwaitTwoFactor" -> {"Success", "Failed"}
      [] OTHER -> {}

Min(a, b) == IF a < b THEN a ELSE b

\* no RequestApiResult
NoResult == [success |-> FALSE, value |-> "none", err |-> "none"]

\* a Client method call: op, where it is, and its locals (cursor, prevCursor:
\* "none" for undefined; requested: the cursors of the page requests it made so
\* far, in order; total: the tweets it gathered or yielded; maxTweets: its
\* argument; count: the count of its last page request; text: its argument;
\* message: the message of the Error it threw)
IdleCall == [op |-> "none", pc |-> "idle", userAuth |-> 0, target |-> 0,
             cookies |-> <<>>, idx |-> 0, step |-> "none", checks |-> <<>>,
             res |-> NoResult,
             cursor |-> "none", prevCursor |-> "none", requested |-> <<>>,
             total |-> 0, maxTweets |-> 0, count |-> 0,
             text |-> <<>>, message |-> <<>>]

\* a call that ended: its outcome and the identity it constructed
EndedCall(call, how) == [IdleCall EXCEPT !.op = call.op, !.pc = how,
                                         !.userAuth = call.userAuth]

\* new TwitterGuestAuth(...) / new TwitterUserAuth(...) as instance `id`
Construct(k, id, cls) == [k EXCEPT ![id] = cls]

(***************************************************************************)
(* constructor (client.ts 135-138): token set, then useGuestAuth().        *)
(***************************************************************************)
ClientInit ==
    /\ auth = 1
    /\ authTrends = 2
    /\ kind = [i \in Ids |-> IF i \in {1, 2} THEN "Guest" ELSE "None"]
    /\ guestToken = [i \in Ids |-> FALSE]
    /\ jar = [i \in Ids |-> EmptyJar]
    /\ logouts = [i \in Ids |-> 0]
    /\ nextId = 3
    /\ calls = [c \in Calls |-> IdleCall]
    /\ nextCall = 1

\* a call can be made: calls are numbered in the order they are made
CanCall(c) == c = nextCall /\ calls[c].pc = "idle"

(***************************************************************************)
(* useGuestAuth (client.ts 145-148): both slots get a new TwitterGuestAuth.*)
(***************************************************************************)
useGuestAuth ==
    /\ auth' = nextId
    /\ authTrends' = nextId + 1
    /\ kind' = Construct(Construct(kind, nextId, "Guest"), nextId + 1, "Guest")
    /\ nextId' = nextId + 2

\* an installation that forgets the trends slot
installUserGeneralOnly(u) ==
    /\ auth' = u
    /\ UNCHANGED authTrends

\* login, lines 774-775, and setCookies, lines 811-812
installUser(u) ==
    /\ auth' = u
    /\ authTrends' = u

(***************************************************************************)
(* login (client.ts 752-776)                                               *)
(***************************************************************************)
\* lines 763-764: construct the TwitterUserAuth, call its login, suspend
loginBegin(c) ==
    /\ CanCall(c)
    /\ kind' = Construct(kind, nextId, "User")
    /\ nextId' = nextId + 1
    /\ nextCall' = nextCall + 1
    /\ calls' = [calls EXCEPT ![c] = [IdleCall EXCEPT !.op = "login",
                    !.pc = "await_login", !.userAuth = nextId, !.step = "Start"]]
    /\ UNCHANGED <<auth, authTrends, guestToken, jar, logouts>>
    /\ UNCHANGED <<supplied, managerVars, headerVars>>

\* userAuth.login in progress: one step of the login protocol
loginProtocolStep(c) ==
    /\ calls[c].pc = "await_login"
    /\ \E s \in LoginProtocol(calls[c].step) :
          calls' = [calls EXCEPT ![c].step = s]
    /\ UNCHANGED <<auth, authTrends, kind, guestToken, jar, logouts, nextId, nextCall>>
    /\ UNCHANGED <<supplied, managerVars, headerVars>>

\* lines 774-775: the awaited login resolved
loginReturn(c) ==
    /\ calls[c].pc = "await_login"
    /\ calls[c].step = "Success"
    /\ installUser(calls[c].userAuth)
    /\ calls' = [calls EXCEPT ![c] = EndedCall(@, "returned")]
    /\ UNCHANGED <<kind, guestToken, jar, logouts, nextId, nextCall>>
    /\ UNCHANGED <<supplied, managerVars, headerVars>>

\* a login whose assignments of lines 774-775 are reached although the login failed
loginThrowInstalls(c) ==
    /\ calls[c].pc = "await_login"
    /\ calls[c].step = "Failed"
    /\ installUser(calls[c].userAuth)
    /\ calls' = [calls EXCEPT ![c] = EndedCall(@, "threw")]
    /\ UNCHANGED <<kind, guestToken, jar, logouts, nextId, nextCall>>
    /\ UNCHANGED <<supplied, managerVars, headerVars>>

\* line 764: the awaited login rejected, the error propagates to the caller and
\* lines 774-775 are not reached
loginThrow(c) ==
    /\ calls[c].pc = "await_login"
    /\ calls[c].step = "Failed"
    /\ calls' = [calls EXCEPT ![c] = EndedCall(@, "threw")]
    /\ UNCHANGED <<auth, authTrends, kind, guestToken, jar, logouts, nextId, nextCall>>
    /\ UNCHANGED <<supplied, managerVars, headerVars>>

(***************************************************************************)
(* logout (client.ts 781-787)                                              *)
(***************************************************************************)
\* line 782: this.auth.logout() is invoked and awaited
logoutBegin(c) ==
    /\ CanCall(c)
    /\ nextCall' = nextCall + 1
    /\ logouts' = [logouts EXCEPT ![auth] = @ + 1]
    /\ calls' = [calls EXCEPT ![c] = [IdleCall EXCEPT !.op = "logout",
                    !.pc = "await_logout1", !.target = auth]]
    /\ UNCHANGED <<auth, authTrends, kind, guestToken, jar, nextId>>
    /\ UNCHANGED <<supplied, managerVars, headerVars>>

\* a logout that does not invoke the logout of the identity in the trends slot
logoutSecondNotInvoked(c) ==
    /\ calls[c].pc = "await_logout1"
    /\ calls' = [calls EXCEPT ![c].pc = "await_logout2", ![c].target = authTrends]
    /\ UNCHANGED <<auth, authTrends, kind, guestToken, jar, logouts, nextId, nextCall>>
    /\ UNCHANGED <<supplied, managerVars, headerVars>>

\* line 783: the first logout resolved; this.authTrends.logout() is invoked and awaited
logoutSecond(c) ==
    /\ calls[c].pc = "await_logout1"
    /\ logouts' = [logouts EXCEPT ![authTrends] = @ + 1]
    /\ calls' = [calls EXCEPT ![c].pc = "await_logout2", ![c].target = authTrends]
    /\ UNCHANGED <<auth, authTrends, kind, guestToken, jar, nextId, nextCall>>
    /\ UNCHANGED <<supplied, managerVars, headerVars>>

\* line 786: the second logout resolved; useGuestAuth()
logoutReturn(c) ==
    /\ calls[c].pc = "await_logout2"
    /\ useGuestAuth
    /\ calls' = [calls EXCEPT ![c] = EndedCall(@, "returned")]
    /\ UNCHANGED <<guestToken, jar, logouts, nextCall>>
    /\ UNCHANGED <<supplied, managerVars, headerVars>>

\* lines 782, 783: an awaited identity logout rejected; the error propagates
logoutThrow(c) ==
    /\ calls[c].pc \in {"await_logout1", "await_logout2"}
    /\ calls' = [calls EXCEPT ![c] = EndedCall(@, "threw")]
    /\ UNCHANGED <<auth, authTrends, kind, guestToken, jar, logouts, nextId, nextCall>>
    /\ UNCHANGED <<supplied, managerVars, headerVars>>

(***************************************************************************)
(* setCookies (client.ts 805-813)                                          *)
(***************************************************************************)
\* lines 806-808 with a non-empty array: construct, call setCookie, suspend
setCookiesBegin(c, cookies) ==
    /\ CanCall(c)
    /\ Len(cookies) > 0
    /\ kind' = Construct(kind, nextId, "User")
    /\ nextId' = nextId + 1
    /\ nextCall' = nextCall + 1
    /\ calls' = [calls EXCEPT ![c] = [IdleCall EXCEPT !.op = "setCookies",
                    !.pc = "await_setCookie", !.userAuth = nextId,
                    !.cookies = cookies, !.idx = 1]]
    /\ UNCHANGED <<auth, authTrends, guestToken, jar, logouts>>
    /\ UNCHANGED <<supplied, managerVars, headerVars>>

\* lines 806-812 with an empty array: no await is reached, the call runs to its end
setCookiesEmpty(c) ==
    /\ CanCall(c)
    /\ kind' = Construct(kind, nextId, "User")
    /\ nextId' = nextId + 1
    /\ nextCall' = nextCall + 1
    /\ installUser(nextId)
    /\ calls' = [calls EXCEPT ![c] = [IdleCall EXCEPT !.op = "setCookies",
                    !.pc = "returned", !.userAuth = nextId]]
    /\ UNCHANGED <<guestToken, jar, logouts>>
    /\ UNCHANGED <<supplied, managerVars, headerVars>>

\* a loop that stores the first cookie in every iteration
loopCookieFirst(cookies, i) == cookies[1]

\* the cookie the loop of lines 807-809 stores in its i-th iteration
loopCookie(cookies, i) == cookies[i]

\* line 808 resolved and the loop goes on: the cookie is in the jar, next setCookie
setCookiesNext(c) ==
    /\ calls[c].pc = "await_setCookie"
    /\ calls[c].idx < Len(calls[c].cookies)
    /\ jar' = [jar EXCEPT ![calls[c].userAuth] =
                  setCookie(@, loopCookie(calls[c].cookies, calls[c].idx))]
    /\ calls' = [calls EXCEPT ![c].idx = @ + 1]
    /\ UNCHANGED <<auth, authTrends, kind, guestToken, logouts, nextId, nextCall>>
    /\ UNCHANGED <<supplied, managerVars, headerVars>>

\* line 808 resolved for the last cookie: lines 811-812
setCookiesReturn(c) ==
    /\ calls[c].pc = "await_setCookie"
    /\ calls[c].idx = Len(calls[c].cookies)
    /\ jar' = [jar EXCEPT ![calls[c].userAuth] =
                  setCookie(@, loopCookie(calls[c].cookies, calls[c].idx))]
    /\ installUser(calls[c].userAuth)
    /\ calls' = [calls EXCEPT ![c] = EndedCall(@, "returned")]
    /\ UNCHANGED <<kind, guestToken, logouts, nextId, nextCall>>
    /\ UNCHANGED <<supplied, managerVars, headerVars>>

\* line 808 rejected: the cookie was not stored, the error propagates
setCookiesThrow(c) ==
    /\ calls[c].pc = "await_setCookie"
    /\ calls' = [calls EXCEPT ![c] = EndedCall(@, "threw")]
    /\ UNCHANGED <<auth, authTrends, kind, guestToken, jar, logouts, nextId, nextCall>>
    /\ UNCHANGED <<supplied, managerVars, headerVars>>

(***************************************************************************)
(* clearCookies (client.ts 818-821)                                        *)
(***************************************************************************)
\* line 819: removeAllCookies() on the jar of this.auth is invoked and awaited
clearCookiesBegin(c) ==
    /\ CanCall(c)
    /\ nextCall' = nextCall + 1
    /\ jar' = [jar EXCEPT ![auth] = EmptyJar]
    /\ calls' = [calls EXCEPT ![c] = [IdleCall EXCEPT !.op = "clearCookies",
                    !.pc = "await_clear1", !.target = auth]]
    /\ UNCHANGED <<auth, authTrends, kind, guestToken, logouts, nextId>>
    /\ UNCHANGED <<supplied, managerVars, headerVars>>

\* line 820: removeAllCookies() on the jar of this.authTrends is invoked and awaited
clearCookiesSecond(c) ==
    /\ calls[c].pc = "await_clear1"
    /\ jar' = [jar EXCEPT ![authTrends] = EmptyJar]
    /\ calls' = [calls EXCEPT ![c].pc = "await_clear2", ![c].target = authTrends]
    /\ UNCHANGED <<auth, authTrends, kind, guestToken, logouts, nextId, nextCall>>
    /\ UNCHANGED <<supplied, managerVars, headerVars>>

\* a clearCookies that ends as logout does, with new Guests in the slots
clearCookiesReturnAsGuests(c) ==
    /\ calls[c].pc = "await_clear2"
    /\ useGuestAuth
    /\ calls' = [calls EXCEPT ![c] = EndedCall(@, "returned")]
    /\ UNCHANGED <<guestToken, jar, logouts, nextCall>>
    /\ UNCHANGED <<supplied, managerVars, headerVars>>

\* line 821: the call returns
clearCookiesReturn(c) ==
    /\ calls[c].pc = "await_clear2"
    /\ calls' = [calls EXCEPT ![c] = EndedCall(@, "returned")]
    /\ UNCHANGED <<auth, authTrends, kind, guestToken, jar, logouts, nextId, nextCall>>
    /\ UNCHANGED <<supplied, managerVars, headerVars>>

(***************************************************************************)
(* A guest identity in a slot fetches its guest token (a request made      *)
(* through a slot as guest: Guest -> Guest refresh).                       *)
(***************************************************************************)
fetchGuestToken(i) ==
    /\ i \in {auth, authTrends}
    /\ kind[i] = "Guest"
    /\ ~guestToken[i]
    /\ guestToken' = [guestToken EXCEPT ![i] = TRUE]
    /\ UNCHANGED <<auth, authTrends, kind, jar, logouts, nextId, calls, nextCall>>
    /\ UNCHANGED <<supplied, managerVars, headerVars>>

(***************************************************************************)
(* The response to a request made through a slot stores a cookie in the    *)
(* jar of the identity in that slot (here: while no Client call is         *)
(* suspended).                                                             *)
(***************************************************************************)
receiveCookie(i, cookie) ==
    /\ i \in {auth, authTrends}
    /\ \A c \in Calls : calls[c].pc \in {"idle", "returned", "threw"}
    /\ jar[i] # setCookie(jar[i], cookie)
    /\ jar' = [jar EXCEPT ![i] = setCookie(@, cookie)]
    /\ UNCHANGED <<auth, authTrends, kind, guestToken, logouts, nextId, calls, nextCall>>
    /\ UNCHANGED <<supplied, managerVars, headerVars>>

(***************************************************************************)
(* isLoggedIn (client.ts 730-734)                                          *)
(***************************************************************************)
\* the outcomes of an identity's live isLoggedIn check: a Guest is not logged in
liveCheck(cls) == IF cls = "User" THEN BOOLEAN ELSE {FALSE}

\* an operator that evaluates its right operand whatever the left one is
evaluatesRightAlways(left) == TRUE

\* line 732, &&: the right operand is evaluated iff the left one is true
evaluatesRight(left) == left

\* line 732: this.auth.isLoggedIn() is invoked and awaited
isLoggedInBegin(c) ==
    /\ CanCall(c)
    /\ nextCall' = nextCall + 1
    /\ calls' = [calls EXCEPT ![c] = [IdleCall EXCEPT !.op = "isLoggedIn",
                    !.pc = "await_check1", !.target = auth]]
    /\ UNCHANGED <<auth, authTrends, kind, guestToken, jar, logouts, nextId>>
    /\ UNCHANGED <<supplied, managerVars, headerVars>>

\* line 732: the first check resolved with `ok`; if && goes on,
\* this.authTrends.isLoggedIn() is invoked and awaited, else the call returns false
isLoggedInFirst(c, ok) ==
    /\ calls[c].pc = "await_check1"
    /\ ok \in liveCheck(kind[calls[c].target])
    /\ calls' = [calls EXCEPT ![c] =
          IF evaluatesRight(ok)
          THEN [@ EXCEPT !.pc = "await_check2", !.target = authTrends,
                         !.checks = <<ok>>]
          ELSE [EndedCall(@, "returned") EXCEPT !.step = "false", !.checks = <<ok>>]]
    /\ UNCHANGED <<auth, authTrends, kind, guestToken, jar, logouts, nextId, nextCall>>
    /\ UNCHANGED <<supplied, managerVars, headerVars>>

\* line 732: the second check resolved with `ok`, which is the value returned
isLoggedInSecond(c, ok) ==
    /\ calls[c].pc = "await_check2"
    /\ ok \in liveCheck(kind[calls[c].target])
    /\ calls' = [calls EXCEPT ![c] =
          [EndedCall(@, "returned") EXCEPT !.step = IF ok THEN "true" ELSE "false",
                                          !.checks = Append(calls[c].checks, ok)]]
    /\ UNCHANGED <<auth, authTrends, kind, guestToken, jar, logouts, nextId, nextCall>>
    /\ UNCHANGED <<supplied, managerVars, headerVars>>

\* line 732: an awaited check rejected; the error propagates
isLoggedInThrow(c) ==
    /\ calls[c].pc \in {"await_check1", "await_check2"}
    /\ calls' = [calls EXCEPT ![c] = EndedCall(@, "threw")]
    /\ UNCHANGED <<auth, authTrends, kind, guestToken, jar, logouts, nextId, nextCall>>
    /\ UNCHANGED <<supplied, managerVars, headerVars>>

(***************************************************************************)
(* getProfile, getEntityIdByScreenName, getScreenNameByUserId (client.ts   *)
(* 155-178), getUserTweets (339-409), handleResponse (946-952)             *)
(***************************************************************************)
\* the methods that hand the result of one awaited request to handleResponse
ResponseOps == {"getProfile", "getEntityIdByScreenName", "getScreenNameByUserId"}
\* and the one that tests the result itself
RequestOps == ResponseOps \cup {"getUserTweets"}

\* the RequestApiResult values a request of api.ts / profile.ts resolves with
ApiErrors == {"ApiError", "AuthenticationError"}
RequestApiResults ==
    {[success |-> TRUE, value |-> "value", err |-> "none"]}
    \cup {[success |-> FALSE, value |-> "none", err |-> e] : e \in ApiErrors}

\* a handleResponse that returns res.value whatever the result
handleResponseSwallows(res) == [how |-> "returned", what |-> res.value]

\* handleResponse (lines 946-952): how it ends and with what
handleResponse(res) ==
    IF ~res.success THEN [how |-> "threw", what |-> res.err]
    ELSE [how |-> "returned", what |-> res.value]

\* getUserTweets, lines 404-409: the test of the result, and
\* parseTimelineTweetsV2(res.value)
userTweets(res) ==
    IF ~res.success THEN [how |-> "threw", what |-> res.err]
    ELSE [how |-> "returned", what |-> "tweets"]

\* lines 156, 166, 176 and 392: the request is issued with this.auth and awaited;
\* idx counts the requests the call has issued
requestBegin(c, op) ==
    /\ CanCall(c)
    /\ op \in RequestOps
    /\ nextCall' = nextCall + 1
    /\ calls' = [calls EXCEPT ![c] = [IdleCall EXCEPT !.op = op,
                    !.pc = "await_request", !.target = auth, !.idx = 1]]
    /\ UNCHANGED <<auth, authTrends, kind, guestToken, jar, logouts, nextId>>
    /\ UNCHANGED <<supplied, managerVars, headerVars>>

\* lines 157, 167, 177 and 404-409: the request resolved with res; the call returns
\* or throws
requestResolve(c, res) ==
    /\ calls[c].pc = "await_request"
    /\ LET end == IF calls[c].op \in ResponseOps THEN handleResponse(res)
                  ELSE userTweets(res)
       IN  calls' = [calls EXCEPT ![c] =
               [EndedCall(@, end.how) EXCEPT !.step = end.what, !.res = res,
                                            !.idx = calls[c].idx]]
    /\ UNCHANGED <<auth, authTrends, kind, guestToken, jar, logouts, nextId, nextCall>>
    /\ UNCHANGED <<supplied, managerVars, headerVars>>

\* the awaited request rejected; the error propagates
requestReject(c) ==
    /\ calls[c].pc = "await_request"
    /\ calls' = [calls EXCEPT ![c] =
           [EndedCall(@, "threw") EXCEPT !.step = "rejected", !.idx = calls[c].idx]]
    /\ UNCHANGED <<auth, authTrends, kind, guestToken, jar, logouts, nextId, nextCall>>
    /\ UNCHANGED <<supplied, managerVars, headerVars>>

(***************************************************************************)
(* getAllQuotedTweets (client.ts 1000-1034)                                *)
(***************************************************************************)
Cursors == {"A", "B", "C"}

\* what fetchQuotedTweetsPage resolves with: tweets (how many; 0 also for a
\* missing array) and next ("none" for a missing one)
QuotedPages == [tweets : 0..1, next : Cursors \cup {"none"}]

\* a test that compares the next cursor with every cursor requested so far
seenBeforeAll(next, call) == \E n \in 1..Len(call.requested) : call.requested[n] = next

\* line 1024: page.next === cursor || page.next === prevCursor
seenBefore(next, call) == next = call.cursor \/ next = call.prevCursor

\* lines 1004-1014: the locals are declared, the first page is requested with an
\* undefined cursor, the call awaits it
getAllQuotedTweetsBegin(c) ==
    /\ CanCall(c)
    /\ nextCall' = nextCall + 1
    /\ calls' = [calls EXCEPT ![c] = [IdleCall EXCEPT !.op = "getAllQuotedTweets",
                    !.pc = "await_page", !.target = auth,
                    !.requested = <<"none">>]]
    /\ UNCHANGED <<auth, authTrends, kind, guestToken, jar, logouts, nextId>>
    /\ UNCHANGED <<supplied, managerVars, headerVars>>

\* lines 1016-1031: the page arrived; the loop ends (1018, 1025) or the cursors
\* move and the next page is requested with the new cursor
getAllQuotedTweetsPage(c, page) ==
    /\ calls[c].pc = "await_page"
    /\ LET call == calls[c]
           gathered == [call EXCEPT !.total = @ + page.tweets]
       IN  calls' = [calls EXCEPT ![c] =
             IF page.tweets = 0
             THEN [call EXCEPT !.pc = "returned", !.target = 0]
             ELSE IF page.next = "none" \/ seenBefore(page.next, call)
             THEN [gathered EXCEPT !.pc = "returned", !.target = 0]
             ELSE [gathered EXCEPT !.prevCursor = call.cursor,
                                   !.cursor = page.next,
                                   !.target = auth,
                                   !.requested = Append(@, page.next)]]
    /\ Len(calls'[c].requested) <= MaxPages
    /\ UNCHANGED <<auth, authTrends, kind, guestToken, jar, logouts, nextId, nextCall>>
    /\ UNCHANGED <<supplied, managerVars, headerVars>>

\* line 1009: the awaited fetchQuotedTweetsPage rejected; the error propagates
getAllQuotedTweetsThrow(c) ==
    /\ calls[c].pc = "await_page"
    /\ calls' = [calls EXCEPT ![c] = [@ EXCEPT !.pc = "threw", !.target = 0]]
    /\ UNCHANGED <<auth, authTrends, kind, guestToken, jar, logouts, nextId, nextCall>>
    /\ UNCHANGED <<supplied, managerVars, headerVars>>

(***************************************************************************)
(* getUserTweetsIterator (client.ts 412-440), getUserTweets (339-409)      *)
(***************************************************************************)
\* the maxTweets arguments followed, and what getUserTweets resolves with: tweets
\* (how many) and next ("none" for a missing one)
MaxTweetsArgs == {0, 2, 201, 402}
TweetPages == [tweets : {0, 1, 200}, next : {"none", "A", "B"}]

\* a request that asks for as many tweets as its argument says
getUserTweetsCountUncapped(maxTweets) == maxTweets

\* lines 344-346, 350: the count getUserTweets asks the server for
getUserTweetsCount(maxTweets) == IF maxTweets > 200 THEN 200 ELSE maxTweets

\* a loop that yields every tweet of the page
yieldedAll(tweets, room) == tweets

\* lines 425-431: the tweets of a page the for loop yields, `room` being
\* maxTweets - retrievedTweets (positive by line 419) when the page arrives
yielded(tweets, room) == IF tweets < room THEN tweets ELSE room

\* lines 416-423: the locals are declared; with 0 < maxTweets the first page is
\* requested, with an undefined cursor, and awaited; otherwise the iterator is done
getUserTweetsIteratorBegin(c, maxTweets) ==
    /\ CanCall(c)
    /\ nextCall' = nextCall + 1
    /\ calls' = [calls EXCEPT ![c] =
          IF 0 < maxTweets
          THEN [IdleCall EXCEPT !.op = "getUserTweetsIterator", !.pc = "await_tweets",
                                !.maxTweets = maxTweets, !.target = auth,
                                !.count = getUserTweetsCount(maxTweets - 0),
                                !.requested = <<"none">>]
          ELSE [IdleCall EXCEPT !.op = "getUserTweetsIterator", !.pc = "returned",
                                !.maxTweets = maxTweets]]
    /\ UNCHANGED <<auth, authTrends, kind, guestToken, jar, logouts, nextId>>
    /\ UNCHANGED <<supplied, managerVars, headerVars>>

\* lines 425-438 and 419-423: the page arrived and the consumer takes the tweets
\* the for loop yields; the cursor becomes the page's next; the iterator is done
\* (437, 419) or the next page is requested with that cursor
getUserTweetsIteratorPage(c, page) ==
    /\ calls[c].pc = "await_tweets"
    /\ LET call == calls[c]
           retrievedTweets == call.total
                                + yielded(page.tweets, call.maxTweets - call.total)
           after == [call EXCEPT !.total = retrievedTweets, !.cursor = page.next]
       IN  calls' = [calls EXCEPT ![c] =
             IF page.next = "none" \/ ~(retrievedTweets < call.maxTweets)
             THEN [after EXCEPT !.pc = "returned", !.target = 0]
             ELSE [after EXCEPT
                     !.target = auth,
                     !.count = getUserTweetsCount(call.maxTweets - retrievedTweets),
                     !.requested = Append(@, page.next)]]
    /\ Len(calls'[c].requested) <= MaxPages
    /\ UNCHANGED <<auth, authTrends, kind, guestToken, jar, logouts, nextId, nextCall>>
    /\ UNCHANGED <<supplied, managerVars, headerVars>>

\* line 420: the awaited getUserTweets threw (lines 404-406) or rejected
getUserTweetsIteratorThrow(c) ==
    /\ calls[c].pc = "await_tweets"
    /\ calls' = [calls EXCEPT ![c] = [@ EXCEPT !.pc = "threw", !.target = 0]]
    /\ UNCHANGED <<auth, authTrends, kind, guestToken, jar, logouts, nextId, nextCall>>
    /\ UNCHANGED <<supplied, managerVars, headerVars>>

(***************************************************************************)
(* sendTweet (client.ts 481-500), sendNoteTweet (502-519).                 *)
(* A text is the sequence of its characters.                               *)
(***************************************************************************)
SendOps == {"sendTweet", "sendNoteTweet"}

\* the texts followed
Texts == {
    <<>>,
    <<" ">>,
    <<"\t", " ", "\n">>,
    <<"h", "i">>,
    <<" ", "h", "i", " ">>,
    <<"e", "r", "r", "o", "r", ":">>,
    <<"E", "R", "R", "O", "R", ":", " ", "x">>,
    <<"E", "r", "r", "o", "r", ":", "x">>,
    <<" ", "e", "r", "r", "o", "r", ":">>,
    <<"e", "r", "r", "o", "r">>,
    <<"e", "r", "r", "o", "r", "s", ":">>}

\* String.prototype.trim: the white space at both ends is removed
isWhiteSpace(ch) == ch \in {" ", "\t", "\n"}

RECURSIVE trimStart(_)
trimStart(text) ==
    IF text # <<>> /\ isWhiteSpace(Head(text)) THEN trimStart(Tail(text)) ELSE text

RECURSIVE trimEnd(_)
trimEnd(text) ==
    IF text # <<>> /\ isWhiteSpace(text[Len(text)])
    THEN trimEnd(SubSeq(text, 1, Len(text) - 1))
    ELSE text

trim(text) == trimEnd(trimStart(text))

\* String.prototype.toLowerCase, character by character
toLowerCaseChar(ch) ==
    CASE ch = "E" -> "e"
      [] ch = "R" -> "r"
      [] ch = "O" -> "o"
      [] ch = "X" -> "x"
      [] OTHER -> ch

\* a conversion that leaves the text as it is
toLowerCaseNot(text) == text

toLowerCase(text) == [n \in 1..Len(text) |-> toLowerCaseChar(text[n])]

\* String.prototype.startsWith
textStartsWith(text, prefix) ==
    /\ Len(text) >= Len(prefix)
    /\ SubSeq(text, 1, Len(prefix)) = prefix

\* lines 487 and 507: !text || text.trim().length === 0
textMissing(text) == text = <<>> \/ Len(trim(text)) = 0

\* lines 490 and 510: text.toLowerCase().startsWith("error:")
textIsError(text) == textStartsWith(toLowerCase(text), <<"e", "r", "r", "o", "r", ":">>)

\* lines 488, 491, 508, 511: the message of the Error thrown
sendMessage(op, text) ==
    IF textMissing(text) THEN <<"Text is required">>
    ELSE <<IF op = "sendTweet" THEN "Error sending tweet: "
           ELSE "Error sending note tweet: ">> \o text

\* sendTweet(text) / sendNoteTweet(text) up to the throw of lines 488, 491 (508, 511)
\* or to the await of line 493 (513); idx: the create requests issued, target: the
\* identity the request is issued with
sendBegin(c, op, text) ==
    /\ CanCall(c)
    /\ op \in SendOps
    /\ nextCall' = nextCall + 1
    /\ calls' = [calls EXCEPT ![c] =
          IF textMissing(text) \/ textIsError(text)
          THEN [IdleCall EXCEPT !.op = op, !.pc = "threw", !.text = text,
                                !.message = sendMessage(op, text)]
          ELSE [IdleCall EXCEPT !.op = op, !.pc = "await_create", !.text = text,
                                !.target = auth, !.idx = 1]]
    /\ UNCHANGED <<auth, authTrends, kind, guestToken, jar, logouts, nextId>>
    /\ UNCHANGED <<supplied, managerVars, headerVars>>

\* lines 493, 513: the awaited create request resolved, the call returns its result
sendReturn(c) ==
    /\ calls[c].pc = "await_create"
    /\ calls' = [calls EXCEPT ![c] = [@ EXCEPT !.pc = "returned"]]
    /\ UNCHANGED <<auth, authTrends, kind, guestToken, jar, logouts, nextId, nextCall>>
    /\ UNCHANGED <<supplied, managerVars, headerVars>>

\* lines 493, 513: the awaited create request rejected; the error propagates
sendThrow(c) ==
    /\ calls[c].pc = "await_create"
    /\ calls' = [calls EXCEPT ![c] = [@ EXCEPT !.pc = "threw", !.step = "rejected"]]
    /\ UNCHANGED <<auth, authTrends, kind, guestToken, jar, logouts, nextId, nextCall>>
    /\ UNCHANGED <<supplied, managerVars, headerVars>>

(***************************************************************************)
(* getCookies (client.ts 793-799)                                          *)
(***************************************************************************)
\* the cookies of a set of keys, as an array
RECURSIVE cookiesOf(_, _)
cookiesOf(j, keys) ==
    IF keys = {} THEN <<>>
    ELSE LET k == CHOOSE x \in keys : TRUE
         IN  <<[key |-> k, value |-> j[k]]>> \o cookiesOf(j, keys \ {k})

\* CookieJar.getCookies(twUrl): the cookies the jar holds, as an array
jarGetCookies(j) == cookiesOf(j, {k \in CookieKeys : j[k] # "absent"})

\* lines 794-798: getCookies on the jar of this.authTrends is invoked and awaited
getCookiesBegin(c) ==
    /\ CanCall(c)
    /\ nextCall' = nextCall + 1
    /\ calls' = [calls EXCEPT ![c] = [IdleCall EXCEPT !.op = "getCookies",
                    !.pc = "await_getCookies", !.target = authTrends,
                    !.cookies = jarGetCookies(jar[authTrends])]]
    /\ UNCHANGED <<auth, authTrends, kind, guestToken, jar, logouts, nextId>>
    /\ UNCHANGED <<supplied, managerVars, headerVars>>

\* line 794: the call returns the array (kept in `cookies`)
getCookiesReturn(c) ==
    /\ calls[c].pc = "await_getCookies"
    /\ calls' = [calls EXCEPT ![c] =
          [EndedCall(@, "returned") EXCEPT !.cookies = calls[c].cookies]]
    /\ UNCHANGED <<auth, authTrends, kind, guestToken, jar, logouts, nextId, nextCall>>
    /\ UNCHANGED <<supplied, managerVars, headerVars>>

\* setCookies(supplied), the empty array
setCookiesSuppliedEmpty(c) == supplied = <<>> /\ setCookiesEmpty(c)

\* the jar after the loop of lines 807-809 stored the first n cookies of the array
RECURSIVE jarAfter(_, _)
jarAfter(cookies, n) ==
    IF n = 0 THEN EmptyJar
    ELSE setCookie(jarAfter(cookies, n - 1), loopCookie(cookies, n))

\* a Client on which setCookies(cookies) has returned
ClientWithCookies(cookies) ==
    /\ auth = 3
    /\ authTrends = 3
    /\ kind = [i \in Ids |-> IF i \in {1, 2} THEN "Guest"
                             ELSE IF i = 3 THEN "User" ELSE "None"]
    /\ guestToken = [i \in Ids |-> FALSE]
    /\ jar = [i \in Ids |-> IF i = 3 THEN jarAfter(cookies, Len(cookies)) ELSE EmptyJar]
    /\ logouts = [i \in Ids |-> 0]
    /\ nextId = 4
    /\ calls = [c \in Calls |-> IdleCall]
    /\ nextCall = 1

Next ==
    \/ \E c \in Calls : loginBegin(c)
    \/ \E c \in Calls : loginProtocolStep(c)
    \/ \E c \in Calls : loginReturn(c)
    \/ \E c \in Calls : loginThrow(c)
    \/ \E c \in Calls : logoutBegin(c)
    \/ \E c \in Calls : logoutSecond(c)
    \/ \E c \in Calls : logoutReturn(c)
    \/ \E c \in Calls : logoutThrow(c)
    \/ \E c \in Calls, cs \in CookieLists : setCookiesBegin(c, cs)
    \/ \E c \in Calls : setCookiesEmpty(c)
    \/ \E c \in Calls : setCookiesNext(c)
    \/ \E c \in Calls : setCookiesReturn(c)
    \/ \E c \in Calls : setCookiesThrow(c)
    \/ \E c \in Calls : clearCookiesBegin(c)
    \/ \E c \in Calls : clearCookiesSecond(c)
    \/ \E c \in Calls : clearCookiesReturn(c)
    \/ \E i \in Ids : fetchGuestToken(i)

\* login, logout and isLoggedIn calls
LoggedInNext ==
    \/ \E c \in Calls : loginBegin(c)
    \/ \E c \in Calls : loginProtocolStep(c)
    \/ \E c \in Calls : loginReturn(c)
    \/ \E c \in Calls : loginThrow(c)
    \/ \E c \in Calls : logoutBegin(c)
    \/ \E c \in Calls : logoutSecond(c)
    \/ \E c \in Calls : logoutReturn(c)
    \/ \E c \in Calls : logoutThrow(c)
    \/ \E c \in Calls : isLoggedInBegin(c)
    \/ \E c \in Calls, ok \in BOOLEAN : isLoggedInFirst(c, ok)
    \/ \E c \in Calls, ok \in BOOLEAN : isLoggedInSecond(c, ok)
    \/ \E c \in Calls : isLoggedInThrow(c)

\* request calls, among login and logout calls
RequestsNext ==
    \/ \E c \in Calls, op \in RequestOps : requestBegin(c, op)
    \/ \E c \in Calls, res \in RequestApiResults : requestResolve(c, res)
    \/ \E c \in Calls : requestReject(c)
    \/ \E c \in Calls : loginBegin(c)
    \/ \E c \in Calls : loginProtocolStep(c)
    \/ \E c \in Calls : loginReturn(c)
    \/ \E c \in Calls : loginThrow(c)
    \/ \E c \in Calls : logoutBegin(c)
    \/ \E c \in Calls : logoutSecond(c)
    \/ \E c \in Calls : logoutReturn(c)
    \/ \E c \in Calls : logoutThrow(c)

\* setCookies(supplied), clearCookies and getCookies calls
CookiesNext ==
    \/ \E c \in Calls : setCookiesBegin(c, supplied)
    \/ \E c \in Calls : setCookiesSuppliedEmpty(c)
    \/ \E c \in Calls : setCookiesNext(c)
    \/ \E c \in Calls : setCookiesReturn(c)
    \/ \E c \in Calls : setCookiesThrow(c)
    \/ \E c \in Calls : clearCookiesBegin(c)
    \/ \E c \in Calls : clearCookiesSecond(c)
    \/ \E c \in Calls : clearCookiesReturn(c)
    \/ \E c \in Calls : getCookiesBegin(c)
    \/ \E c \in Calls : getCookiesReturn(c)

\* clearCookies and getCookies calls on a Client, Guest or User, whose identities
\* receive cookies
JarsNext ==
    \/ \E i \in Ids, cookie \in Cookie : receiveCookie(i, cookie)
    \/ \E c \in Calls : clearCookiesBegin(c)
    \/ \E c \in Calls : clearCookiesSecond(c)
    \/ \E c \in Calls : clearCookiesReturn(c)
    \/ \E c \in Calls : getCookiesBegin(c)
    \/ \E c \in Calls : getCookiesReturn(c)

\* logout calls on a Client, Guest or User, among setCookies(supplied) calls
LogoutNext ==
    \/ \E c \in Calls : logoutBegin(c)
    \/ \E c \in Calls : logoutSecond(c)
    \/ \E c \in Calls : logoutReturn(c)
    \/ \E c \in Calls : logoutThrow(c)
    \/ \E c \in Calls : setCookiesBegin(c, supplied)
    \/ \E c \in Calls : setCookiesSuppliedEmpty(c)
    \/ \E c \in Calls : setCookiesNext(c)
    \/ \E c \in Calls : setCookiesReturn(c)
    \/ \E c \in Calls : setCookiesThrow(c)

\* getAllQuotedTweets calls
QuotesNext ==
    \/ \E c \in Calls : getAllQuotedTweetsBegin(c)
    \/ \E c \in Calls, page \in QuotedPages : getAllQuotedTweetsPage(c, page)
    \/ \E c \in Calls : getAllQuotedTweetsThrow(c)

\* the getUserTweetsIterator call that is followed: the first call on the Client
firstGetUserTweetsIterator(c, maxTweets) ==
    /\ nextCall = 1
    /\ getUserTweetsIteratorBegin(c, maxTweets)

\* one getUserTweetsIterator call (the locals of a call are its own)
IteratorNext ==
    \/ \E c \in Calls, maxTweets \in MaxTweetsArgs :
          firstGetUserTweetsIterator(c, maxTweets)
    \/ \E c \in Calls, page \in TweetPages : getUserTweetsIteratorPage(c, page)
    \/ \E c \in Calls : getUserTweetsIteratorThrow(c)

\* sendTweet and sendNoteTweet calls, among setCookies([]) calls
SendNext ==
    \/ \E c \in Calls, op \in SendOps, text \in Texts : sendBegin(c, op, text)
    \/ \E c \in Calls : sendReturn(c)
    \/ \E c \in Calls : sendThrow(c)
    \/ \E c \in Calls : setCookiesSuppliedEmpty(c)

(***************************************************************************)
(* Properties of the Client (checked under Spec).                          *)
(***************************************************************************)
Awaiting == {"await_login", "await_logout1", "await_logout2", "await_setCookie",
             "await_clear1", "await_clear2", "await_check1", "await_check2",
             "await_getCookies", "await_request", "await_page", "await_tweets",
             "await_create"}
Ended == {"returned", "threw"}

\* call c ends in this step
Ends(c) == calls[c].pc \in Awaiting \cup {"idle"} /\ calls'[c].pc \in Ended

\* C1: in every reachable state, also while calls are suspended at an await, the
\* general and the trends slot hold two distinct Guest instances or one and the
\* same User instance.
C1_SlotsGuestPairOrOneUser ==
    \/ /\ kind[auth] = "Guest"
       /\ kind[authTrends] = "Guest"
       /\ auth # authTrends
    \/ /\ kind[auth] = "User"
       /\ auth = authTrends

\* a logged-in Client with a call suspended at an await
C1_Witness ==
    /\ kind[auth] = "User"
    /\ auth = authTrends
    /\ \E c \in Calls : calls[c].pc \in Awaiting

\* C2: every logout call, however the identities' own logout calls end, leaves in
\* both slots two newly constructed Guest instances, different from every instance
\* constructed before, whose hasToken() is false.
C2_LogoutAlwaysFreshGuests ==
    [][\A c \in Calls :
          (Ends(c) /\ calls[c].op = "logout") =>
              /\ auth' \notin 1..(nextId - 1)
              /\ authTrends' \notin 1..(nextId - 1)
              /\ auth' # authTrends'
              /\ kind'[auth'] = "Guest" /\ kind'[authTrends'] = "Guest"
              /\ ~guestToken'[auth'] /\ ~guestToken'[authTrends']]_vars

\* C3: a login whose protocol failed ends by raising the error, never by returning;
\* no step of a login call other than its normal return changes a slot, and the User
\* instance of a failed login is in no slot.
C3_FailedLoginKeepsSlots ==
    /\ [][\A c \in Calls :
            /\ (calls[c].op = "login" /\ calls[c].step = "Failed" /\ Ends(c))
                   => calls'[c].pc = "threw"
            /\ (calls'[c] # calls[c] /\ calls'[c].op = "login"
                    /\ calls'[c].pc # "returned")
                   => (auth' = auth /\ authTrends' = authTrends)]_vars
    /\ [](\A c \in Calls :
            (calls[c].op = "login" /\ (calls[c].pc = "threw" \/ calls[c].step = "Failed"))
                => calls[c].userAuth \notin {auth, authTrends})

\* a login failed while the Client was logged in, and the earlier User is still in
\* both slots
C3_Witness ==
    \E c \in Calls :
        /\ calls[c].op = "login" /\ calls[c].pc = "threw"
        /\ kind[auth] = "User" /\ auth = authTrends

\* the content of a jar that contains every cookie of the array
ContainsAll(j, cookies) ==
    \A i \in 1..Len(cookies) : j[cookies[i].key] = cookies[i].value

\* the content of a jar that holds, per key, the last cookie of the array with that key
HoldsLastPerKey(j, cookies) ==
    \A k \in CookieKeys :
        LET at == {i \in 1..Len(cookies) : cookies[i].key = k}
        IN  IF at = {} THEN j[k] = "absent"
            ELSE \E i \in at : (\A o \in at : o <= i) /\ j[k] = cookies[i].value

\* what C4 says of a login or setCookies call c ending in this step, but for the
\* content of the jar
C4_Frame(c) ==
    /\ calls'[c].pc = "returned" =>
          /\ auth' = calls'[c].userAuth
          /\ authTrends' = calls'[c].userAuth
          /\ kind'[calls'[c].userAuth] = "User"
          /\ calls'[c].userAuth \notin {auth, authTrends}
          /\ calls'[c].userAuth >= (IF calls[c].pc = "idle" THEN nextId
                                    ELSE calls[c].userAuth)
    /\ (calls'[c].pc = "threw" /\ calls[c].op = "setCookies") =>
          (auth' = auth /\ authTrends' = authTrends)

\* C4 as stated: when login or setCookies returns normally both slots hold the one
\* User instance that call constructed; with setCookies its jar contains the
\* supplied cookies; when storing a cookie fails the slots are unchanged.
C4_Original ==
    [][\A c \in Calls :
          (Ends(c) /\ calls'[c].op \in {"login", "setCookies"}) =>
              /\ C4_Frame(c)
              /\ (calls'[c].pc = "returned" /\ calls[c].op = "setCookies") =>
                    ContainsAll(jar'[calls'[c].userAuth], calls[c].cookies)]_vars

\* C4 as amended: ... its jar holds, for every cookie key supplied, the last
\* supplied cookie with that key, and nothing else.
C4_InstallsNewUser ==
    [][\A c \in Calls :
          (Ends(c) /\ calls'[c].op \in {"login", "setCookies"}) =>
              /\ C4_Frame(c)
              /\ (calls'[c].pc = "returned" /\ calls'[c].op = "setCookies") =>
                    HoldsLastPerKey(jar'[calls'[c].userAuth], calls[c].cookies)]_vars

\* setCookies returned while the Client was logged in: the slots hold its User, whose
\* jar holds a cookie, and another User exists
C4_Witness ==
    \E c \in Calls :
        /\ calls[c].op = "setCookies" /\ calls[c].pc = "returned"
        /\ auth = calls[c].userAuth /\ authTrends = calls[c].userAuth
        /\ jar[auth] # EmptyJar
        /\ \E i \in Ids : i < auth /\ kind[i] = "User"

\* call c is invoked in this step
Begins(c) == calls[c].pc = "idle" /\ calls'[c].pc # "idle"


\* C13: whenever a User identity is in a slot (after a login or setCookies returned
\* and until a logout replaces it) both slots hold the same instance, hence one jar:
\* what clearCookies removes through the jar of the general slot (line 819) is gone
\* from the jar of the trends slot, and what getCookies reads through the jar of the
\* trends slot (line 794) is what the jar of the general slot holds.
C13_OneJar ==
    /\ []((kind[auth] = "User" \/ kind[authTrends] = "User") =>
             (auth = authTrends /\ jar[auth] = jar[authTrends]))
    /\ [][\A c \in Calls :
            (Begins(c) /\ kind[auth] = "User") =>
                /\ calls'[c].op = "clearCookies" => jar'[authTrends] = EmptyJar
                /\ calls'[c].op = "getCookies" =>
                      calls'[c].cookies = jarGetCookies(jar[auth])]_vars

\* setCookies stored a cookie and returned; clearCookies has removed the cookies
\* through the jar of the general slot, and the jar of the trends slot is empty
C13_Witness ==
    /\ supplied # <<>>
    /\ calls[1].op = "setCookies" /\ calls[1].pc = "returned"
    /\ calls[2].op = "clearCookies" /\ calls[2].pc = "await_clear1"
    /\ calls[2].target = calls[1].userAuth
    /\ authTrends = calls[1].userAuth
    /\ jar[authTrends] = EmptyJar

\* C31: every step of a clearCookies call leaves the slots, the class of every
\* identity, the guest tokens and the logout counts as they are, and changes a jar
\* only by emptying the jar of an identity in a slot; its first step empties the
\* jar of the general slot, its second the jar of the trends slot; when a
\* clearCookies call that no other call overlaps returns, the jars of both slots
\* are empty and getCookies has no cookie to return.
C31_ClearCookiesOnly ==
    /\ [][\A c \in Calls :
            (calls'[c] # calls[c] /\ calls'[c].op = "clearCookies") =>
                /\ auth' = auth /\ authTrends' = authTrends
                /\ kind' = kind /\ guestToken' = guestToken
                /\ logouts' = logouts /\ nextId' = nextId
                /\ \A i \in Ids : jar'[i] # jar[i] =>
                      (i \in {auth, authTrends} /\ jar'[i] = EmptyJar)
                /\ calls'[c].pc = "await_clear1" => jar'[auth] = EmptyJar
                /\ calls'[c].pc = "await_clear2" => jar'[authTrends] = EmptyJar]_vars
    /\ [][(calls[1].op = "clearCookies" /\ Ends(1) /\ nextCall = 2) =>
            /\ calls'[1].pc = "returned"
            /\ jar'[auth'] = EmptyJar /\ jar'[authTrends'] = EmptyJar
            /\ jarGetCookies(jar'[authTrends']) = <<>>]_vars

\* on a Client with a User in its slots getCookies has returned a cookie, then
\* clearCookies has returned: the slots hold that User still, its jar is empty
C31_Witness ==
    /\ calls[1].op = "getCookies" /\ calls[1].pc = "returned"
    /\ calls[1].cookies # <<>>
    /\ calls[2].op = "clearCookies" /\ calls[2].pc = "returned"
    /\ kind[auth] = "User" /\ auth = authTrends /\ auth = 3
    /\ jar[auth] = EmptyJar

\* the array holds every cookie of jar j
ReturnsAll(array, j) ==
    \A k \in CookieKeys :
        j[k] # "absent" =>
            \E n \in 1..Len(array) : array[n] = [key |-> k, value |-> j[k]]

\* C32: in every state of a Client, Guest or User, the array a getCookies call
\* returns holds every cookie that the jar of the identity in the general slot and
\* the jar of the identity in the trends slot hold when it is called.
C32_AllCookiesOfBothSlots ==
    [][\A c \in Calls :
          (Begins(c) /\ calls'[c].op = "getCookies") =>
              /\ ReturnsAll(calls'[c].cookies, jar[authTrends])
              /\ ReturnsAll(calls'[c].cookies, jar[auth])]_vars

\* C33: the steps of a logout call come in the order: logout of the identity in
\* the general slot is invoked, then (that one resolved) logout of the identity
\* that is in the trends slot at that moment, then (that one resolved) both slots
\* get newly constructed Guests; the steps before the last leave the slots as they
\* are; and when logout is called on a Client with one User in both slots and no
\* other call overlaps it, the logout of that User has been invoked exactly twice
\* when the slots are replaced.
C33_LogoutOrder ==
    /\ [][\A c \in Calls :
            (calls'[c] # calls[c] /\ calls'[c].op = "logout") =>
                /\ Begins(c) =>
                      /\ calls'[c].pc = "await_logout1"
                      /\ calls'[c].target = auth
                      /\ logouts' = [logouts EXCEPT ![auth] = @ + 1]
                /\ calls'[c].pc = "await_logout2" =>
                      /\ calls[c].pc = "await_logout1"
                      /\ calls'[c].target = authTrends
                      /\ logouts' = [logouts EXCEPT ![authTrends] = @ + 1]
                /\ calls'[c].pc = "returned" =>
                      /\ calls[c].pc = "await_logout2"
                      /\ logouts' = logouts
                      /\ auth' = nextId /\ authTrends' = nextId + 1
                      /\ kind[auth'] = "None" /\ kind[authTrends'] = "None"
                      /\ kind'[auth'] = "Guest" /\ kind'[authTrends'] = "Guest"
                /\ calls'[c].pc # "returned" =>
                      (auth' = auth /\ authTrends' = authTrends /\ kind' = kind)]_vars
    /\ []((calls[1].op = "logout" /\ nextCall = 2) =>
            /\ calls[1].pc = "await_logout1" => calls[1].target = auth
            /\ calls[1].pc = "await_logout2" => calls[1].target = authTrends
            /\ calls[1].pc \in Awaiting => (auth < nextId /\ authTrends < nextId /\ auth <= 3))
    /\ [][(calls[1].op = "logout" /\ calls'[1].pc = "returned" /\ Ends(1)
            /\ nextCall = 2 /\ kind[auth] = "User") =>
                /\ auth = authTrends
                /\ logouts[auth] = 2
                /\ logouts'[auth] = 2
                /\ auth' # auth /\ authTrends' # auth]_vars

\* logout has returned on a Client that had a User (instance 3) in both slots, with
\* no other call made: the logout of that User was invoked twice, Guests are in
\* the slots
C33_Witness ==
    /\ calls[1].op = "logout" /\ calls[1].pc = "returned" /\ nextCall = 2
    /\ kind[3] = "User" /\ logouts[3] = 2
    /\ kind[auth] = "Guest" /\ kind[authTrends] = "Guest"
    /\ auth = 4 /\ authTrends = 5

\* C34: a getAllQuotedTweets call never requests a page with a cursor it has
\* requested before, and it stops when a page has no tweets, has no next cursor, or
\* has a next cursor equal to one it has used (so that it makes at most one
\* request per distinct cursor, and one without cursor).
C34_NoCursorTwice ==
    [][\A c \in Calls, page \in QuotedPages :
          (calls[c].op = "getAllQuotedTweets" /\ getAllQuotedTweetsPage(c, page)) =>
              /\ \A n \in 1..Len(calls[c].requested) :
                    Len(calls'[c].requested) > Len(calls[c].requested) =>
                        calls'[c].requested[Len(calls'[c].requested)]
                            # calls[c].requested[n]
              /\ (\/ page.tweets = 0
                  \/ page.next = "none"
                  \/ seenBeforeAll(page.next, calls[c])) => calls'[c].pc = "returned"]_vars

\* C35: for every sequence of pages, a getUserTweetsIterator(userId, maxTweets)
\* call yields at most maxTweets tweets in total; every page request asks for
\* min(200, maxTweets - tweets yielded so far) tweets; the first request passes no
\* cursor, every later one the next cursor of the page before it; and the call
\* goes on to another request iff, after a page, fewer than maxTweets tweets were
\* yielded and the page carries a next cursor.
C35_IteratorWithinMax ==
    /\ [](\A c \in Calls : calls[c].op = "getUserTweetsIterator" =>
            /\ calls[c].total <= calls[c].maxTweets
            /\ calls[c].pc = "await_tweets" =>
                  /\ calls[c].total < calls[c].maxTweets
                  /\ calls[c].count = Min(200, calls[c].maxTweets - calls[c].total)
                  /\ calls[c].requested[Len(calls[c].requested)] = calls[c].cursor
                  /\ calls[c].requested[1] = "none")
    /\ [][\A c \in Calls, page \in TweetPages :
            getUserTweetsIteratorPage(c, page) =>
                /\ calls'[c].total = calls[c].total
                      + Min(page.tweets, calls[c].maxTweets - calls[c].total)
                /\ calls'[c].cursor = page.next
                /\ calls'[c].pc = "returned" <=>
                      (calls'[c].total = calls[c].maxTweets \/ page.next = "none")
                /\ calls'[c].pc = "await_tweets" <=>
                      Len(calls'[c].requested) = Len(calls[c].requested) + 1]_vars

\* an iterator asked for 201 tweets has yielded the 200 tweets of a first page,
\* requested a second page with the cursor of the first, asking for 1 tweet, and
\* has yielded 1 of the 200 tweets of the second page: it is done with 201 tweets
C35_Witness ==
    \E c \in Calls :
        /\ calls[c].op = "getUserTweetsIterator" /\ calls[c].pc = "returned"
        /\ calls[c].maxTweets = 201 /\ calls[c].total = 201
        /\ calls[c].requested = <<"none", "A">>
        /\ calls[c].count = 1
        /\ calls[c].cursor = "B"

\* the text is empty or has white space only
OnlyWhiteSpace(text) == \A n \in 1..Len(text) : text[n] \in {" ", "\t", "\n"}

\* the text starts with "error:" in some letter case
StartsWithErrorInAnyCase(text) ==
    /\ Len(text) >= 6
    /\ text[1] \in {"e", "E"} /\ text[2] \in {"r", "R"} /\ text[3] \in {"r", "R"}
    /\ text[4] \in {"o", "O"} /\ text[5] \in {"r", "R"} /\ text[6] = ":"

\* C36: a sendTweet / sendNoteTweet call with an empty or white-space-only text
\* throws "Text is required", one with a text that starts with "error:" in any
\* letter case throws an Error whose message contains the text, both before a
\* request is issued; a call with any other text issues exactly one create
\* request, with the identity in the general slot; no step of a call changes the
\* slots, the identities or their jars.
C36_RejectsBeforeRequest ==
    /\ [][\A c \in Calls :
            (Begins(c) /\ calls'[c].op \in SendOps) =>
                LET call == calls'[c]
                IN  /\ OnlyWhiteSpace(call.text) =>
                          /\ call.pc = "threw" /\ call.idx = 0
                          /\ call.message = <<"Text is required">>
                    /\ (~OnlyWhiteSpace(call.text)
                          /\ StartsWithErrorInAnyCase(call.text)) =>
                          /\ call.pc = "threw" /\ call.idx = 0
                          /\ Len(call.message) = 1 + Len(call.text)
                          /\ SubSeq(call.message, 2, Len(call.message)) = call.text
                    /\ (~OnlyWhiteSpace(call.text)
                          /\ ~StartsWithErrorInAnyCase(call.text)) =>
                          /\ call.pc = "await_create" /\ call.idx = 1
                          /\ call.target = auth]_vars
    /\ [][\A c \in Calls :
            (calls'[c] # calls[c] /\ calls'[c].op \in SendOps) =>
                /\ auth' = auth /\ authTrends' = authTrends /\ kind' = kind
                /\ jar' = jar /\ guestToken' = guestToken /\ logouts' = logouts
                /\ nextId' = nextId
                /\ ~Begins(c) => (calls'[c].idx = 1 /\ calls'[c].target = calls[c].target)]_vars

\* sendNoteTweet("ERROR: x") has thrown its Error without a request, and
\* sendTweet(" error:") has issued its one request with the identity in the
\* general slot
C36_Witness ==
    \E c, d \in Calls :
        /\ calls[c].op = "sendNoteTweet" /\ calls[c].pc = "threw"
        /\ calls[c].text = <<"E", "R", "R", "O", "R", ":", " ", "x">>
        /\ calls[c].message[1] = "Error sending note tweet: "
        /\ calls[c].idx = 0
        /\ calls[d].op = "sendTweet" /\ calls[d].pc = "await_create"
        /\ calls[d].text = <<" ", "e", "r", "r", "o", "r", ":">>
        /\ calls[d].idx = 1 /\ calls[d].target = auth

\* C14: an isLoggedIn call that returns returns true iff the check of the general
\* slot and the check of the trends slot both returned true, and false iff a check
\* it made returned false; the first check is made on the identity in the general
\* slot, the second on the identity in the trends slot; no step of the call changes
\* a slot.
C14_BothChecks ==
    /\ [](\A c \in Calls :
            (calls[c].op = "isLoggedIn" /\ calls[c].pc = "returned") =>
                /\ calls[c].step \in {"true", "false"}
                /\ calls[c].step = "true" <=> calls[c].checks = <<TRUE, TRUE>>
                /\ calls[c].step = "false" <=>
                      \E i \in 1..Len(calls[c].checks) : ~calls[c].checks[i])
    /\ [][\A c \in Calls :
            (calls'[c] # calls[c] /\ calls'[c].op = "isLoggedIn") =>
                /\ auth' = auth /\ authTrends' = authTrends
                /\ calls'[c].pc = "await_check1" => calls'[c].target = auth
                /\ calls'[c].pc = "await_check2" => calls'[c].target = authTrends]_vars

\* the check of the general slot returned true, that of the trends slot false, and
\* the call returned false
C14_Witness ==
    \E c \in Calls :
        /\ calls[c].op = "isLoggedIn" /\ calls[c].pc = "returned"
        /\ calls[c].checks = <<TRUE, FALSE>>
        /\ calls[c].step = "false"

\* the cookies of an array, as a set
Elements(cookies) == {cookies[i] : i \in 1..Len(cookies)}

\* the array holds, for every key of `cookies`, the last cookie of `cookies` with
\* that key, and nothing else
IsLastPerKey(array, cookies) ==
    /\ \A i, j \in 1..Len(array) : array[i].key = array[j].key => i = j
    /\ \A i \in 1..Len(array) :
          \E n \in 1..Len(cookies) :
              /\ cookies[n] = array[i]
              /\ \A o \in 1..Len(cookies) : cookies[o].key = array[i].key => o <= n
    /\ \A n \in 1..Len(cookies) : \E i \in 1..Len(array) : array[i].key = cookies[n].key

\* getCookies is invoked in this step, right after setCookies(supplied) returned; no
\* other call was made on the Client since it was in its initial state
AfterSetCookies(c) ==
    /\ Begins(c) /\ calls'[c].op = "getCookies"
    /\ c > 1 /\ calls[c - 1].op = "setCookies" /\ calls[c - 1].pc = "returned"
    /\ \A o \in Calls \ {c - 1} : calls[o].pc = "idle"

rotationInterval == 300000
\* line 1223: requestDelay = floor(random * 1900) + 100
requestDelaySpan == 1900
requestDelayMin == 100
\* line 1329: jitter = random * 500
jitterSpan == 500
\* line 1330: min(requestCount * 50, 1000)
countStep == 50
countCap == 1000

\* the base delays and jitters followed: the least and the greatest of their ranges
RequestDelays == {requestDelayMin, requestDelayMin + requestDelaySpan - 1}
Jitters == {0, jitterSpan - 1}
\* the amounts by which the environment advances the clock
TickSizes == {1, 100000, 300000}
\* and while waitForRequest calls are followed
WaitTickSizes == {300000}

Fps == 1..MaxFp
Waits == 1..MaxWaits

NoFingerprint == [id |-> 0, requestDelay |-> 0]

\* generateBrowserFingerprint (lines 1200-1250): a new object; of its fields the
\* manager reads requestDelay
generateBrowserFingerprint(id, delay) == [id |-> id, requestDelay |-> delay]

\* the manager's fields as one value
Manager == [currentFingerprint |-> currentFingerprint, lastRotation |-> lastRotation,
            requestCount |-> requestCount, lastRequestTime |-> lastRequestTime]

\* a rotation that is due already when the interval has just elapsed
rotationDueAtInterval(m, t) ==
    m.currentFingerprint = NoFingerprint \/ (t - m.lastRotation) >= rotationInterval

\* line 1302: the condition under which getCurrentFingerprint rotates
rotationDue(m, t) ==
    m.currentFingerprint = NoFingerprint \/ (t - m.lastRotation) > rotationInterval

\* an installation that does not record when it happened
installFingerprintKeepsSince(m, t, fresh) ==
    [m EXCEPT !.currentFingerprint = fresh, !.requestCount = 0]

\* lines 1303-1305 and 1314-1316: install `fresh`
installFingerprint(m, t, fresh) ==
    [m EXCEPT !.currentFingerprint = fresh, !.lastRotation = t, !.requestCount = 0]

\* a lookup that installs the first fingerprint and never replaces it
getCurrentFingerprintNoInterval(m, t, fresh) ==
    IF m.currentFingerprint = NoFingerprint THEN installFingerprint(m, t, fresh) ELSE m

\* getCurrentFingerprint (lines 1300-1308): the manager after the call at time t
getCurrentFingerprint(m, t, fresh) ==
    IF rotationDue(m, t) THEN installFingerprint(m, t, fresh) ELSE m

\* a rotation that keeps the request count
rotateFingerprintKeepsCount(m, t, fresh) ==
    [m EXCEPT !.currentFingerprint = fresh, !.lastRotation = t]

\* rotateFingerprint (lines 1313-1318)
rotateFingerprint(m, t, fresh) == installFingerprint(m, t, fresh)

\* a count term without its cap
countMultiplierUncapped(count) == count * countStep

\* line 1330
countMultiplier(count) == Min(count * countStep, countCap)

\* a delay computed without counting the request
getRequestDelayUncounted(m, t, fresh, jitter) ==
    LET after == getCurrentFingerprint(m, t, fresh)
        term == countMultiplier(after.requestCount)
    IN  [m |-> after, term |-> term,
         delay |-> after.currentFingerprint.requestDelay + jitter + term]

\* getRequestDelay (lines 1323-1333): the manager after the call, and what it returns
getRequestDelay(m, t, fresh, jitter) ==
    LET counted == [m EXCEPT !.requestCount = @ + 1]
        after == getCurrentFingerprint(counted, t, fresh)
        term == countMultiplier(after.requestCount)
    IN  [m |-> after, term |-> term,
         delay |-> after.currentFingerprint.requestDelay + jitter + term]

\* a comparison the wrong way round
mustWaitFlipped(timeSinceLastRequest, requiredDelay) ==
    timeSinceLastRequest > requiredDelay

\* line 1343
mustWait(timeSinceLastRequest, requiredDelay) == timeSinceLastRequest < requiredDelay

\* a timer set for half the remainder
waitTimeHalved(timeSinceLastRequest, requiredDelay) ==
    (requiredDelay - timeSinceLastRequest) \div 2

\* line 1344
waitTime(timeSinceLastRequest, requiredDelay) == requiredDelay - timeSinceLastRequest

IdleWait == [pc |-> "idle", at |-> 0, timeSinceLastRequest |-> 0, requiredDelay |-> 0,
             waitTime |-> 0]

\* a waitForRequest call that ended
EndedWait == [IdleWait EXCEPT !.pc = "done"]

NotHanded == [fp |-> 0, since |-> 0, at |-> 0]

\* getCurrentFingerprint handed out the fingerprint of manager m at time t
Hand(m, t) == [fp |-> m.currentFingerprint.id, since |-> m.lastRotation, at |-> t]

\* the getRequestDelay calls under the held fingerprint, after a call that returned
\* `term`; `rotated`: the call installed the fingerprint itself
Counted(d, rotated, term) ==
    [n |-> IF rotated THEN 1 ELSE d.n + 1,
     fixed |-> IF rotated THEN 0 ELSE d.fixed + 1,
     term |-> term]

NoDelayCalls == [n |-> 0, fixed |-> 0, term |-> 0]

\* op: the operation; fp: the fingerprint it returned or looked up; rotated: it
\* installed a fingerprint; term: the count term of the delay it computed; ended: a
\* waitForRequest call ended in this step, after `waited` ms, having computed
\* requiredDelay `delay` with timeSinceLastRequest `since`
NoRet == [op |-> "none", fp |-> 0, rotated |-> FALSE, term |-> 0,
          ended |-> FALSE, delay |-> 0, since |-> 0, waited |-> 0]

ManagerInit ==
    /\ currentFingerprint = NoFingerprint
    /\ lastRotation = 0
    /\ requestCount = 0
    /\ lastRequestTime = 0
    /\ now = StartTime
    /\ nextFp = 1
    /\ ticks = 0
    /\ waits = [w \in Waits |-> IdleWait]
    /\ nextWait = 1
    /\ ret = NoRet
    /\ handed = NotHanded
    /\ delayCalls = NoDelayCalls

\* the fields of the manager become those of m; a fingerprint object was made iff
\* the held one changed
SetManager(m) ==
    /\ currentFingerprint' = m.currentFingerprint
    /\ lastRotation' = m.lastRotation
    /\ requestCount' = m.requestCount
    /\ lastRequestTime' = m.lastRequestTime
    /\ nextFp' = IF m.currentFingerprint = currentFingerprint THEN nextFp ELSE nextFp + 1

\* the fingerprint objects generateBrowserFingerprint can return next
Fresh == IF nextFp \in Fps
         THEN {generateBrowserFingerprint(nextFp, d) : d \in RequestDelays}
         ELSE {}

\* a call of getCurrentFingerprint() / getCurrentFingerprintInfo() (lines 1497-1499)
callGetCurrentFingerprint ==
    \E fresh \in Fresh \cup {NoFingerprint} :
        LET m == getCurrentFingerprint(Manager, now, fresh)
            rotated == m.currentFingerprint # currentFingerprint
        IN  /\ rotationDue(Manager, now) <=> fresh # NoFingerprint
            /\ SetManager(m)
            /\ handed' = Hand(m, now)
            /\ delayCalls' = IF rotated THEN NoDelayCalls ELSE delayCalls
            /\ ret' = [NoRet EXCEPT !.op = "getCurrentFingerprint",
                          !.fp = m.currentFingerprint.id, !.rotated = rotated]
            /\ UNCHANGED <<now, ticks, waits, nextWait>>
    /\ UNCHANGED <<clientVars, headerVars>>

\* a call of rotateFingerprint() / rotateBrowserFingerprint() (lines 1490-1492)
callRotateFingerprint ==
    \E fresh \in Fresh :
        LET m == rotateFingerprint(Manager, now, fresh)
        IN  /\ SetManager(m)
            /\ handed' = NotHanded
            /\ delayCalls' = NoDelayCalls
            /\ ret' = [NoRet EXCEPT !.op = "rotateFingerprint",
                          !.fp = m.currentFingerprint.id, !.rotated = TRUE]
            /\ UNCHANGED <<now, ticks, waits, nextWait>>
    /\ UNCHANGED <<clientVars, headerVars>>

\* a call of getRequestDelay()
callGetRequestDelay ==
    /\ requestCount < MaxCount
    /\ \E fresh \in Fresh \cup {NoFingerprint}, jitter \in Jitters :
        LET r == getRequestDelay(Manager, now, fresh, jitter)
            rotated == r.m.currentFingerprint # currentFingerprint
        IN  /\ rotationDue(Manager, now) <=> fresh # NoFingerprint
            /\ SetManager(r.m)
            /\ handed' = Hand(r.m, now)
            /\ delayCalls' = Counted(delayCalls, rotated, r.term)
            /\ ret' = [NoRet EXCEPT !.op = "getRequestDelay",
                          !.fp = r.m.currentFingerprint.id, !.rotated = rotated,
                          !.term = r.term]
            /\ UNCHANGED <<now, ticks, waits, nextWait>>
    /\ UNCHANGED <<clientVars, headerVars>>

\* waitForRequest (lines 1338-1349) up to its await, or to its end when it does not
\* wait: what it does to the manager
waitForRequestStart(w) ==
    /\ w = nextWait
    /\ waits[w].pc = "idle"
    /\ requestCount < MaxCount
    /\ \E fresh \in Fresh \cup {NoFingerprint}, jitter \in Jitters :
        LET timeSinceLastRequest == now - lastRequestTime
            r == getRequestDelay(Manager, now, fresh, jitter)
            rotated == r.m.currentFingerprint # currentFingerprint
            suspend == mustWait(timeSinceLastRequest, r.delay)
            m == IF suspend THEN r.m ELSE [r.m EXCEPT !.lastRequestTime = now]
        IN  /\ rotationDue(Manager, now) <=> fresh # NoFingerprint
            /\ SetManager(m)
            /\ handed' = Hand(r.m, now)
            /\ delayCalls' = Counted(delayCalls, rotated, r.term)
            /\ ret' = [NoRet EXCEPT !.op = "waitForRequest",
                          !.fp = r.m.currentFingerprint.id, !.rotated = rotated,
                          !.term = r.term, !.ended = ~suspend,
                          !.delay = IF suspend THEN 0 ELSE r.delay,
                          !.since = IF suspend THEN 0 ELSE timeSinceLastRequest]
            /\ waits' = [waits EXCEPT ![w] =
                  IF suspend
                  THEN [pc |-> "suspended", at |-> now,
                        timeSinceLastRequest |-> timeSinceLastRequest,
                        requiredDelay |-> r.delay,
                        waitTime |-> waitTime(timeSinceLastRequest, r.delay)]
                  ELSE EndedWait]
            /\ nextWait' = nextWait + 1
            /\ UNCHANGED <<now, ticks>>

\* a call of waitForRequest(), up to its await or to its end
waitForRequestBegin(w) ==
    /\ waitForRequestStart(w)
    /\ UNCHANGED <<clientVars, headerVars>>

\* line 1348: the timer of line 1345 fired, the call resumes and ends
waitForRequestResume(w) ==
    /\ waits[w].pc = "suspended"
    /\ now >= waits[w].at + waits[w].waitTime
    /\ lastRequestTime' = now
    /\ waits' = [waits EXCEPT ![w] = EndedWait]
    /\ ret' = [NoRet EXCEPT !.op = "resume", !.ended = TRUE,
                  !.delay = waits[w].requiredDelay,
                  !.since = waits[w].timeSinceLastRequest,
                  !.waited = now - waits[w].at]
    /\ UNCHANGED <<currentFingerprint, lastRotation, requestCount, now, nextFp, ticks,
                   nextWait, handed, delayCalls>>
    /\ UNCHANGED <<clientVars, headerVars>>

\* a timer that is never due
timerNeverDue(w) ==
    /\ waits[w].pc = "suspended"
    /\ now < waits[w].at
    /\ UNCHANGED vars

\* time passes until the timer of a suspended call is due
timerDue(w) ==
    /\ waits[w].pc = "suspended"
    /\ now < waits[w].at + waits[w].waitTime
    /\ now' = waits[w].at + waits[w].waitTime
    /\ ret' = [NoRet EXCEPT !.op = "time"]
    /\ UNCHANGED <<currentFingerprint, lastRotation, requestCount, lastRequestTime,
                   nextFp, ticks, waits, nextWait, handed, delayCalls>>
    /\ UNCHANGED <<clientVars, headerVars>>

\* time passes
tick(d) ==
    /\ ticks < MaxTicks
    /\ ticks' = ticks + 1
    /\ now' = now + d
    /\ ret' = [NoRet EXCEPT !.op = "time"]
    /\ UNCHANGED <<currentFingerprint, lastRotation, requestCount, lastRequestTime,
                   nextFp, waits, nextWait, handed, delayCalls>>
    /\ UNCHANGED <<clientVars, headerVars>>

\* the synchronous operations of the manager, and the clock
ManagerNext ==
    \/ callGetCurrentFingerprint
    \/ callRotateFingerprint
    \/ callGetRequestDelay
    \/ \E d \in TickSizes : tick(d)

\* overlapping waitForRequest calls, rotations, and the clock
WaitNext ==
    \/ \E w \in Waits : waitForRequestBegin(w)
    \/ \E w \in Waits : waitForRequestResume(w)
    \/ \E w \in Waits : timerDue(w)
    \/ callRotateFingerprint
    \/ \E d \in WaitTickSizes : tick(d)

\* a rotateFingerprint() call made while a waitForRequest call is suspended
rotateWhileSuspended ==
    /\ \E w \in Waits : waits[w].pc = "suspended"
    /\ callRotateFingerprint

\* overlapping waitForRequest calls, and rotateFingerprint() calls made while one
\* is suspended; time passes as the timers fire
PacedNext ==
    \/ \E w \in Waits : waitForRequestBegin(w)
    \/ \E w \in Waits : waitForRequestResume(w)
    \/ \E w \in Waits : timerDue(w)
    \/ rotateWhileSuspended

(***************************************************************************)
(* Fingerprints and header sets (client.ts 1081-1285, 1357-1470).          *)
(* A user agent is its string and the substrings it has among those the    *)
(* code tests for ("Chrome/": the Chromium marker Chrome/<version>).       *)
(***************************************************************************)
CHROME_USER_AGENTS == {
    [text |-> "Mozilla/5.0 (Windows NT 10.0; Win64; x64) AppleWebKit/537.36 (KHTML, like Gecko) Chrome/120.0.0.0 Safari/537.36",
     has |-> {"Chrome/120", "Chrome/", "Chrome", "Safari", "Windows NT 10.0"}],
    [text |-> "Mozilla/5.0 (Windows NT 10.0; Win64; x64) AppleWebKit/537.36 (KHTML, like Gecko) Chrome/119.0.0.0 Safari/537.36",
     has |-> {"Chrome/119", "Chrome/", "Chrome", "Safari", "Windows NT 10.0"}],
    [text |-> "Mozilla/5.0 (Windows NT 10.0; Win64; x64) AppleWebKit/537.36 (KHTML, like Gecko) Chrome/118.0.0.0 Safari/537.36",
     has |-> {"Chrome/118", "Chrome/", "Chrome", "Safari", "Windows NT 10.0"}],
    [text |-> "Mozilla/5.0 (Windows NT 11.0; Win64; x64) AppleWebKit/537.36 (KHTML, like Gecko) Chrome/120.0.0.0 Safari/537.36",
     has |-> {"Chrome/120", "Chrome/", "Chrome", "Safari", "Windows NT 11.0"}],
    [text |-> "Mozilla/5.0 (Macintosh; Intel Mac OS X 10_15_7) AppleWebKit/537.36 (KHTML, like Gecko) Chrome/120.0.0.0 Safari/537.36",
     has |-> {"Chrome/120", "Chrome/", "Chrome", "Safari", "Macintosh"}],
    [text |-> "Mozilla/5.0 (Macintosh; Intel Mac OS X 10_15_7) AppleWebKit/537.36 (KHTML, like Gecko) Chrome/119.0.0.0 Safari/537.36",
     has |-> {"Chrome/119", "Chrome/", "Chrome", "Safari", "Macintosh"}],
    [text |-> "Mozilla/5.0 (Macintosh; Intel Mac OS X 14_1) AppleWebKit/537.36 (KHTML, like Gecko) Chrome/120.0.0.0 Safari/537.36",
     has |-> {"Chrome/120", "Chrome/", "Chrome", "Safari", "Macintosh"}],
    [text |-> "Mozilla/5.0 (X11; Linux x86_64) AppleWebKit/537.36 (KHTML, like Gecko) Chrome/120.0.0.0 Safari/537.36",
     has |-> {"Chrome/120", "Chrome/", "Chrome", "Safari", "Linux"}],
    [text |-> "Mozilla/5.0 (X11; Linux x86_64) AppleWebKit/537.36 (KHTML, like Gecko) Chrome/119.0.0.0 Safari/537.36",
     has |-> {"Chrome/119", "Chrome/", "Chrome", "Safari", "Linux"}]}

FIREFOX_USER_AGENTS == {
    [text |-> "Mozilla/5.0 (Windows NT 10.0; Win64; x64; rv:121.0) Gecko/20100101 Firefox/121.0",
     has |-> {"Firefox", "Windows NT 10.0"}],
    [text |-> "Mozilla/5.0 (Windows NT 10.0; Win64; x64; rv:120.0) Gecko/20100101 Firefox/120.0",
     has |-> {"Firefox", "Windows NT 10.0"}],
    [text |-> "Mozilla/5.0 (Windows NT 11.0; Win64; x64; rv:121.0) Gecko/20100101 Firefox/121.0",
     has |-> {"Firefox", "Windows NT 11.0"}],
    [text |-> "Mozilla/5.0 (Macintosh; Intel Mac OS X 10.15; rv:121.0) Gecko/20100101 Firefox/121.0",
     has |-> {"Firefox", "Macintosh"}],
    [text |-> "Mozilla/5.0 (Macintosh; Intel Mac OS X 10.15; rv:120.0) Gecko/20100101 Firefox/120.0",
     has |-> {"Firefox", "Macintosh"}],
    [text |-> "Mozilla/5.0 (X11; Linux x86_64; rv:121.0) Gecko/20100101 Firefox/121.0",
     has |-> {"Firefox", "Linux"}],
    [text |-> "Mozilla/5.0 (X11; Ubuntu; Linux x86_64; rv:121.0) Gecko/20100101 Firefox/121.0",
     has |-> {"Firefox", "Linux"}]}

SAFARI_USER_AGENTS == {
    [text |-> "Mozilla/5.0 (Macintosh; Intel Mac OS X 10_15_7) AppleWebKit/605.1.15 (KHTML, like Gecko) Version/17.1 Safari/605.1.15",
     has |-> {"Safari", "Macintosh"}],
    [text |-> "Mozilla/5.0 (Macintosh; Intel Mac OS X 10_15_7) AppleWebKit/605.1.15 (KHTML, like Gecko) Version/16.6 Safari/605.1.15",
     has |-> {"Safari", "Macintosh"}],
    [text |-> "Mozilla/5.0 (Macintosh; Intel Mac OS X 14_1) AppleWebKit/605.1.15 (KHTML, like Gecko) Version/17.1 Safari/605.1.15",
     has |-> {"Safari", "Macintosh"}]}

MOBILE_USER_AGENTS == {
    [text |-> "Mozilla/5.0 (iPhone; CPU iPhone OS 17_1 like Mac OS X) AppleWebKit/605.1.15 (KHTML, like Gecko) Version/17.1 Mobile/15E148 Safari/604.1",
     has |-> {"Safari", "iPhone", "Mobile"}],
    [text |-> "Mozilla/5.0 (iPhone; CPU iPhone OS 16_6 like Mac OS X) AppleWebKit/605.1.15 (KHTML, like Gecko) Version/16.6 Mobile/15E148 Safari/604.1",
     has |-> {"Safari", "iPhone", "Mobile"}],
    [text |-> "Mozilla/5.0 (Linux; Android 14; SM-G998B) AppleWebKit/537.36 (KHTML, like Gecko) Chrome/120.0.0.0 Mobile Safari/537.36",
     has |-> {"Chrome/120", "Chrome/", "Chrome", "Safari", "Linux", "Android", "Mobile"}],
    [text |-> "Mozilla/5.0 (Linux; Android 13; Pixel 7) AppleWebKit/537.36 (KHTML, like Gecko) Chrome/119.0.0.0 Mobile Safari/537.36",
     has |-> {"Chrome/119", "Chrome/", "Chrome", "Safari", "Linux", "Android", "Mobile"}]}

\* line 1138 without and with the spread of line 1143
DESKTOP_USER_AGENTS == CHROME_USER_AGENTS \cup FIREFOX_USER_AGENTS \cup SAFARI_USER_AGENTS
UserAgentPools == {DESKTOP_USER_AGENTS, DESKTOP_USER_AGENTS \cup MOBILE_USER_AGENTS}

\* line 1149: of the seven languages one is followed
ACCEPT_LANGUAGES == {"en-US,en;q=0.9"}

\* String.prototype.includes on a user agent
includes(userAgent, s) == s \in userAgent.has

\* a getSecChUa in which a Safari agent reaches the final return
getSecChUaNoSafari(userAgent) ==
    IF includes(userAgent, "Chrome/120")
    THEN "\"Not_A Brand\";v=\"8\", \"Chromium\";v=\"120\", \"Google Chrome\";v=\"120\""
    ELSE IF includes(userAgent, "Chrome/119")
    THEN "\"Google Chrome\";v=\"119\", \"Chromium\";v=\"119\", \"Not?A_Brand\";v=\"24\""
    ELSE IF includes(userAgent, "Chrome/118")
    THEN "\"Chromium\";v=\"118\", \"Google Chrome\";v=\"118\", \"Not=A?Brand\";v=\"99\""
    ELSE IF includes(userAgent, "Firefox")
    THEN ""
    ELSE "\"Not_A Brand\";v=\"8\", \"Chromium\";v=\"120\""

\* getSecChUa (lines 1162-1175)
getSecChUa(userAgent) ==
    IF includes(userAgent, "Chrome/120")
    THEN "\"Not_A Brand\";v=\"8\", \"Chromium\";v=\"120\", \"Google Chrome\";v=\"120\""
    ELSE IF includes(userAgent, "Chrome/119")
    THEN "\"Google Chrome\";v=\"119\", \"Chromium\";v=\"119\", \"Not?A_Brand\";v=\"24\""
    ELSE IF includes(userAgent, "Chrome/118")
    THEN "\"Chromium\";v=\"118\", \"Google Chrome\";v=\"118\", \"Not=A?Brand\";v=\"99\""
    ELSE IF includes(userAgent, "Firefox")
    THEN ""
    ELSE IF includes(userAgent, "Safari") /\ ~includes(userAgent, "Chrome")
    THEN ""
    ELSE "\"Not_A Brand\";v=\"8\", \"Chromium\";v=\"120\""

\* getSecChUaPlatform (lines 1180-1188)
getSecChUaPlatform(userAgent) ==
    IF includes(userAgent, "Windows NT 10.0") THEN "\"Windows\""
    ELSE IF includes(userAgent, "Windows NT 11.0") THEN "\"Windows\""
    ELSE IF includes(userAgent, "Macintosh") THEN "\"macOS\""
    ELSE IF includes(userAgent, "Linux") THEN "\"Linux\""
    ELSE IF includes(userAgent, "iPhone") THEN "\"iOS\""
    ELSE IF includes(userAgent, "Android") THEN "\"Android\""
    ELSE "\"Windows\""

\* an isMobile that knows Android only
isMobileAndroidOnly(userAgent) == includes(userAgent, "Android")

\* isMobile (lines 1193-1195)
isMobile(userAgent) ==
    includes(userAgent, "Mobile") \/ includes(userAgent, "iPhone")
        \/ includes(userAgent, "Android")

\* the object returned at lines 1225-1249, for the random draws of lines 1201, 1202,
\* 1236, 1238 and 1239; sessionId (line 1220) is one fixed value, and the fields no
\* assembler reads (viewport, timezone, cookieEnabled, doNotTrack) are left out;
\* requestDelay is kept with the manager's fingerprint object
BrowserFingerprint(userAgent, acceptLanguage, dnt, cacheControl, pragma) ==
    [userAgent |-> userAgent,
     acceptLanguage |-> acceptLanguage,
     acceptEncoding |-> "gzip, deflate, br",
     accept |-> "text/html,application/xhtml+xml,application/xml;q=0.9,image/avif,image/webp,image/apng,*/*;q=0.8,application/signed-exchange;v=b3;q=0.7",
     secFetchDest |-> "document",
     secFetchMode |-> "navigate",
     secFetchSite |-> "none",
     secChUa |-> getSecChUa(userAgent),
     secChUaMobile |-> IF isMobile(userAgent) THEN "?1" ELSE "?0",
     secChUaPlatform |-> getSecChUaPlatform(userAgent),
     dnt |-> dnt,
     upgradeInsecureRequests |-> "1",
     cacheControl |-> cacheControl,
     pragma |-> pragma,
     connection |-> "keep-alive",
     sessionId |-> "sessionId"]

\* every fingerprint generateBrowserFingerprint (lines 1200-1250) can return when
\* the pool of line 1138 is `pool`
BrowserFingerprints(pool) ==
    {BrowserFingerprint(ua, al, dnt, cc, pr) :
        ua \in pool, al \in ACCEPT_LANGUAGES, dnt \in {"1", "0"},
        cc \in {"no-cache", "max-age=0"}, pr \in {"no-cache", ""}}

\* line 1220: two of the values crypto.randomBytes(16).toString('hex') can return
SessionIds == {"5f2c9a0b7d4e1f3a8b6c0d9e2f1a4b7c", "c07e1d2a9b8f4c3e6a5d0b1f2e3c4d5a"}

\* of these, the ones followed through getTwitterApiHeaders / getTwitterWebHeaders:
\* every agent of the pool, with the likelier outcome of the draws of lines 1236,
\* 1238 and 1239
FollowedFingerprints(pool) ==
    {[BrowserFingerprint(ua, al, "0", "max-age=0", "") EXCEPT !.sessionId = sid] :
        ua \in pool, al \in ACCEPT_LANGUAGES, sid \in SessionIds}

\* no fingerprint
NoBrowserFingerprint ==
    [userAgent |-> [text |-> "", has |-> {}], acceptLanguage |-> "",
     acceptEncoding |-> "", accept |-> "", secFetchDest |-> "", secFetchMode |-> "",
     secFetchSite |-> "", secChUa |-> "", secChUaMobile |-> "", secChUaPlatform |-> "",
     dnt |-> "", upgradeInsecureRequests |-> "", cacheControl |-> "", pragma |-> "",
     connection |-> "", sessionId |-> ""]

(***************************************************************************)
(* Headers (headers-polyfill): a list of <<name, value>> with the names in *)
(* lower case, in the order in which the names were first set.             *)
(***************************************************************************)
normalizeHeaderName(name) ==
    CASE name = "Host" -> "host"
      [] name = "User-Agent" -> "user-agent"
      [] name = "Accept" -> "accept"
      [] name = "Accept-Language" -> "accept-language"
      [] name = "Accept-Encoding" -> "accept-encoding"
      [] name = "DNT" -> "dnt"
      [] name = "Connection" -> "connection"
      [] name = "Upgrade-Insecure-Requests" -> "upgrade-insecure-requests"
      [] name = "Sec-Fetch-Dest" -> "sec-fetch-dest"
      [] name = "Sec-Fetch-Mode" -> "sec-fetch-mode"
      [] name = "Sec-Fetch-Site" -> "sec-fetch-site"
      [] name = "Sec-CH-UA" -> "sec-ch-ua"
      [] name = "Sec-CH-UA-Mobile" -> "sec-ch-ua-mobile"
      [] name = "Sec-CH-UA-Platform" -> "sec-ch-ua-platform"
      [] name = "Cache-Control" -> "cache-control"
      [] name = "Pragma" -> "pragma"
      [] name = "Referer" -> "referer"
      [] name = "Origin" -> "origin"
      [] name = "X-Twitter-Active-User" -> "x-twitter-active-user"
      [] name = "X-Twitter-Client-Language" -> "x-twitter-client-language"
      [] name = "X-Requested-With" -> "x-requested-with"
      [] name = "X-Client-Transaction-Id" -> "x-client-transaction-id"
      [] name = "Purpose" -> "purpose"
      [] name = "X-Forwarded-For" -> "x-forwarded-for"
      [] name = "Authorization" -> "authorization"
      [] OTHER -> name

headersHas(h, name) == \E i \in 1..Len(h) : h[i][1] = normalizeHeaderName(name)

\* Headers.get; "" stands for null
headersGet(h, name) ==
    IF headersHas(h, name)
    THEN LET i == CHOOSE k \in 1..Len(h) : h[k][1] = normalizeHeaderName(name)
         IN  h[i][2]
    ELSE ""

headersSet(h, name, value) ==
    IF headersHas(h, name)
    THEN [i \in 1..Len(h) |-> IF h[i][1] = normalizeHeaderName(name)
                              THEN <<h[i][1], value>> ELSE h[i]]
    ELSE Append(h, <<normalizeHeaderName(name), value>>)

headersDelete(h, name) ==
    LET keep(e) == e[1] # normalizeHeaderName(name)
    IN  SelectSeq(h, keep)

\* new Headers(init): the entries of the record, in their order
RECURSIVE Headers(_)
Headers(init) ==
    IF init = <<>> THEN <<>>
    ELSE headersSet(Headers(SubSeq(init, 1, Len(init) - 1)),
                    init[Len(init)][1], init[Len(init)][2])

\* the names of a header set, in its order
headerKeys(h) == [i \in 1..Len(h) |-> h[i][1]]

\* a target: what startsWith and new URL(..).host read of it; NoUrl for undefined
Url(scheme, host) == [scheme |-> scheme, host |-> host]
NoUrl == Url("", "")
startsWith(url, prefix) == url.scheme = prefix
\* the string "api.twitter.com": no scheme, not an absolute URL
RelativeUrl == Url("", "api.twitter.com")
Targets == {Url("https://", "api.twitter.com"), Url("https://", "twitter.com"),
            Url("http://", "api.twitter.com"), NoUrl, RelativeUrl}

\* line 1360: new URL(url || "https://api.twitter.com") returns; it throws a
\* TypeError for a string that is not an absolute URL
parses(url) == url = NoUrl \/ url.scheme \in {"https://", "http://"}

\* lines 1265 and 1371
secFetchWanted(url) == url = NoUrl \/ startsWith(url, "https://")

\* applyBrowserHeaders (lines 1255-1285)
applyBrowserHeaders(headers, fingerprint, url) ==
    LET h1 == headersSet(headers, "User-Agent", fingerprint.userAgent.text)
        h2 == headersSet(h1, "Accept-Language", fingerprint.acceptLanguage)
        h3 == headersSet(h2, "Accept-Encoding", fingerprint.acceptEncoding)
        h4 == headersSet(h3, "Accept", fingerprint.accept)
        h5 == headersSet(h4, "DNT", fingerprint.dnt)
        h6 == headersSet(h5, "Upgrade-Insecure-Requests",
                         fingerprint.upgradeInsecureRequests)
        h7 == headersSet(h6, "Connection", fingerprint.connection)
        h8 == IF secFetchWanted(url)
              THEN headersSet(headersSet(headersSet(h7,
                       "Sec-Fetch-Dest", fingerprint.secFetchDest),
                       "Sec-Fetch-Mode", fingerprint.secFetchMode),
                       "Sec-Fetch-Site", fingerprint.secFetchSite)
              ELSE h7
        h9 == IF fingerprint.secChUa # ""
              THEN headersSet(headersSet(headersSet(h8,
                       "Sec-CH-UA", fingerprint.secChUa),
                       "Sec-CH-UA-Mobile", fingerprint.secChUaMobile),
                       "Sec-CH-UA-Platform", fingerprint.secChUaPlatform)
              ELSE h8
        h10 == IF fingerprint.cacheControl # ""
               THEN headersSet(h9, "Cache-Control", fingerprint.cacheControl) ELSE h9
    IN  IF fingerprint.pragma # "" THEN headersSet(h10, "Pragma", fingerprint.pragma)
        ELSE h10


\* the loop of lines 1397-1401
RECURSIVE setEach(_, _)
setEach(headers, pairs) ==
    IF pairs = <<>> THEN headers
    ELSE LET rest == setEach(headers, SubSeq(pairs, 1, Len(pairs) - 1))
             last == pairs[Len(pairs)]
         IN  IF last[2] # "" THEN headersSet(rest, last[1], last[2]) ELSE rest

\* lines 1359-1394: the array orderedHeaders
orderedHeaders(fingerprint, url) ==
    <<<<"Host", IF url = NoUrl THEN "api.twitter.com" ELSE url.host>>,
      <<"User-Agent", fingerprint.userAgent.text>>,
      <<"Accept", fingerprint.accept>>,
      <<"Accept-Language", fingerprint.acceptLanguage>>,
      <<"Accept-Encoding", fingerprint.acceptEncoding>>,
      <<"DNT", fingerprint.dnt>>,
      <<"Connection", fingerprint.connection>>,
      <<"Upgrade-Insecure-Requests", fingerprint.upgradeInsecureRequests>>>>
    \o (IF secFetchWanted(url)
        THEN <<<<"Sec-Fetch-Dest", fingerprint.secFetchDest>>,
               <<"Sec-Fetch-Mode", fingerprint.secFetchMode>>,
               <<"Sec-Fetch-Site", fingerprint.secFetchSite>>>>
        ELSE <<>>)
    \o (IF fingerprint.secChUa # ""
        THEN <<<<"Sec-CH-UA", fingerprint.secChUa>>,
               <<"Sec-CH-UA-Mobile", fingerprint.secChUaMobile>>,
               <<"Sec-CH-UA-Platform", fingerprint.secChUaPlatform>>>>
        ELSE <<>>)
    \o (IF fingerprint.cacheControl # ""
        THEN <<<<"Cache-Control", fingerprint.cacheControl>>>> ELSE <<>>)
    \o (IF fingerprint.pragma # ""
        THEN <<<<"Pragma", fingerprint.pragma>>>> ELSE <<>>)

\* an assembler whose deviation deletes User-Agent and does not set it again
applyAdvancedBrowserHeadersDeleteOnly(headers, fingerprint, url, lowerCase) ==
    LET applied == setEach(headers, orderedHeaders(fingerprint, url))
        userAgent == headersGet(applied, "User-Agent")
    IN  IF lowerCase /\ userAgent # ""
        THEN headersDelete(applied, "User-Agent")
        ELSE applied

\* applyAdvancedBrowserHeaders (lines 1357-1411); lowerCase: Math.random() < 0.1 at
\* line 1404
applyAdvancedBrowserHeaders(headers, fingerprint, url, lowerCase) ==
    LET applied == setEach(headers, orderedHeaders(fingerprint, url))
        userAgent == headersGet(applied, "User-Agent")
    IN  IF lowerCase /\ userAgent # ""
        THEN headersSet(headersDelete(applied, "User-Agent"), "user-agent", userAgent)
        ELSE applied

\* generateRandomIP (lines 1475-1485): one of its addresses is followed
generateRandomIP == "24.1.2.3"

\* a getTwitterApiHeaders that leaves Accept as the assembler set it
twitterApiHeadersKeepsAccept(baseHeaders, fingerprint, lowerCase, purpose, forwarded) ==
    LET h0 == applyAdvancedBrowserHeaders(Headers(baseHeaders), fingerprint,
                                          Url("https://", "api.twitter.com"), lowerCase)
        h1 == headersSet(h0, "Referer", "https://twitter.com/")
        h2 == headersSet(h1, "Origin", "https://twitter.com")
        h3 == headersSet(h2, "X-Twitter-Active-User", "yes")
        h4 == headersSet(h3, "X-Twitter-Client-Language", "en")
        h6 == headersSet(h4, "X-Requested-With", "XMLHttpRequest")
        h7 == headersSet(h6, "X-Client-Transaction-Id", fingerprint.sessionId)
        h8 == IF purpose THEN headersSet(h7, "Purpose", "prefetch") ELSE h7
    IN  IF forwarded THEN headersSet(h8, "X-Forwarded-For", generateRandomIP) ELSE h8

\* getTwitterApiHeaders, lines 1421-1450; purpose, forwarded: the draws of lines 1442
\* and 1446
twitterApiHeaders(baseHeaders, fingerprint, lowerCase, purpose, forwarded) ==
    LET h0 == applyAdvancedBrowserHeaders(Headers(baseHeaders), fingerprint,
                                          Url("https://", "api.twitter.com"), lowerCase)
        h1 == headersSet(h0, "Referer", "https://twitter.com/")
        h2 == headersSet(h1, "Origin", "https://twitter.com")
        h3 == headersSet(h2, "X-Twitter-Active-User", "yes")
        h4 == headersSet(h3, "X-Twitter-Client-Language", "en")
        h5 == headersSet(h4, "Accept", "application/json, text/plain, */*")
        h6 == headersSet(h5, "X-Requested-With", "XMLHttpRequest")
        h7 == headersSet(h6, "X-Client-Transaction-Id", fingerprint.sessionId)
        h8 == IF purpose THEN headersSet(h7, "Purpose", "prefetch") ELSE h7
    IN  IF forwarded THEN headersSet(h8, "X-Forwarded-For", generateRandomIP) ELSE h8

\* getTwitterWebHeaders, lines 1460-1469
twitterWebHeaders(baseHeaders, fingerprint, lowerCase) ==
    LET h0 == applyAdvancedBrowserHeaders(Headers(baseHeaders), fingerprint,
                                          Url("https://", "twitter.com"), lowerCase)
        h1 == headersSet(h0, "Referer", "https://twitter.com/home")
    IN  headersSet(h1, "Origin", "https://twitter.com")

\* the records callers hand over as baseHeaders, and from which the Headers objects
\* handed to the assemblers are made
BaseHeaders ==
    {<<>>,
     <<<<"Authorization", "Bearer">>>>,
     <<<<"user-agent", "curl/8.4.0">>, <<"Accept", "text/plain">>>>,
     <<<<"Sec-Fetch-Dest", "empty">>, <<"Sec-Fetch-Mode", "cors">>,
       <<"Sec-Fetch-Site", "same-site">>>>,
     <<<<"Sec-CH-UA", "\"Chromium\";v=\"120\"">>, <<"Sec-CH-UA-Mobile", "?0">>,
       <<"Sec-CH-UA-Platform", "\"Windows\"">>>>}

\* op: the function called; fingerprint, url, before, lowerCase: what it was called
\* with, or drew; headers: the header set afterwards; threw: the call raised
NoOut == [op |-> "none", fingerprint |-> NoBrowserFingerprint, url |-> NoUrl,
          before |-> <<>>, lowerCase |-> FALSE, headers |-> <<>>, threw |-> FALSE]

\* the fields of the manager's fingerprint objects have not been read
NotGenerated == [f \in Fps |-> NoBrowserFingerprint]

HeaderOps == {"getTwitterApiHeaders", "getTwitterWebHeaders"}

\* a getTwitterApiHeaders / getTwitterWebHeaders call: op, its argument, where it is,
\* the waitForRequest call it awaits, and the fingerprint object (its id) whose
\* requestDelay that call read at line 1324
NoRequest == [pc |-> "idle", op |-> "none", baseHeaders |-> <<>>, wait |-> 0, fp |-> 0]

\* the module is loaded: line 1143 draws the pool
HeaderInit ==
    /\ ALL_USER_AGENTS \in UserAgentPools
    /\ generated = NotGenerated
    /\ request = NoRequest
    /\ out = NoOut

\* the module is loaded and line 1143 leaves the mobile agents out; no fingerprint
\* field but requestDelay is read
HeaderIdle ==
    /\ ALL_USER_AGENTS = DESKTOP_USER_AGENTS
    /\ generated = NotGenerated
    /\ request = NoRequest
    /\ out = NoOut

\* a call of generateBrowserFingerprint(), the first or after another one
callGenerateBrowserFingerprint ==
    /\ out.op \in {"none", "generateBrowserFingerprint"}
    /\ \E fingerprint \in BrowserFingerprints(ALL_USER_AGENTS) :
          out' = [NoOut EXCEPT !.op = "generateBrowserFingerprint",
                               !.fingerprint = fingerprint]
    /\ UNCHANGED <<ALL_USER_AGENTS, generated, request>>
    /\ UNCHANGED <<clientVars, managerVars>>

\* a call of applyBrowserHeaders(headers, fingerprint, url)
callApplyBrowserHeaders ==
    /\ out = NoOut
    /\ \E base \in BaseHeaders, fingerprint \in BrowserFingerprints(ALL_USER_AGENTS),
          url \in Targets :
          out' = [op |-> "applyBrowserHeaders", fingerprint |-> fingerprint,
                  url |-> url, before |-> Headers(base), lowerCase |-> FALSE,
                  headers |-> applyBrowserHeaders(Headers(base), fingerprint, url),
                  threw |-> FALSE]
    /\ UNCHANGED <<ALL_USER_AGENTS, generated, request>>
    /\ UNCHANGED <<clientVars, managerVars>>

\* a call of applyAdvancedBrowserHeaders(headers, fingerprint, url); when line 1360
\* throws, the header set is as it was
callApplyAdvancedBrowserHeaders ==
    /\ out = NoOut
    /\ \E base \in BaseHeaders, fingerprint \in BrowserFingerprints(ALL_USER_AGENTS),
          url \in Targets, lowerCase \in BOOLEAN :
          out' = [op |-> "applyAdvancedBrowserHeaders", fingerprint |-> fingerprint,
                  url |-> url, before |-> Headers(base), lowerCase |-> lowerCase,
                  headers |-> IF parses(url)
                              THEN applyAdvancedBrowserHeaders(Headers(base),
                                       fingerprint, url, lowerCase)
                              ELSE Headers(base),
                  threw |-> ~parses(url)]
    /\ UNCHANGED <<ALL_USER_AGENTS, generated, request>>
    /\ UNCHANGED <<clientVars, managerVars>>

\* lines 1418 and 1457: the call starts waitForRequest() and awaits it
awaitWaitForRequest(op, baseHeaders) ==
    /\ request = NoRequest
    /\ nextWait \in Waits
    /\ waitForRequestStart(nextWait)
    /\ request' = [pc |-> "await_waitForRequest", op |-> op,
                   baseHeaders |-> baseHeaders, wait |-> nextWait, fp |-> ret'.fp]
    /\ UNCHANGED <<ALL_USER_AGENTS, generated, out>>
    /\ UNCHANGED clientVars

\* getTwitterApiHeaders(baseHeaders) up to its await (lines 1416-1418)
getTwitterApiHeadersBegin(baseHeaders) ==
    /\ baseHeaders \in BaseHeaders
    /\ awaitWaitForRequest("getTwitterApiHeaders", baseHeaders)

\* getTwitterWebHeaders(baseHeaders) up to its await (lines 1456-1457)
getTwitterWebHeadersBegin(baseHeaders) ==
    /\ baseHeaders \in BaseHeaders
    /\ awaitWaitForRequest("getTwitterWebHeaders", baseHeaders)

\* lines 1420 and 1459: the awaited waitForRequest call has ended, the call goes on
\* with getCurrentFingerprint(); `fields`: what generateBrowserFingerprint drew for
\* the fingerprint object, fixed when they are first read; url, lowerCase: what the
\* assembler is called with and draws; headers: the header set the call then returns
withCurrentFingerprint(op, fields, url, lowerCase, headers) ==
    /\ request.pc = "await_waitForRequest"
    /\ request.op = op
    /\ waits[request.wait].pc = "done"
    /\ \E fresh \in Fresh \cup {NoFingerprint} :
          LET m == getCurrentFingerprint(Manager, now, fresh)
              rotated == m.currentFingerprint # currentFingerprint
              id == m.currentFingerprint.id
              fingerprint == IF generated[id] = NoBrowserFingerprint THEN fields
                             ELSE generated[id]
          IN  /\ rotationDue(Manager, now) <=> fresh # NoFingerprint
              /\ fields = fingerprint
              /\ SetManager(m)
              /\ handed' = Hand(m, now)
              /\ delayCalls' = IF rotated THEN NoDelayCalls ELSE delayCalls
              /\ ret' = [NoRet EXCEPT !.op = "getCurrentFingerprint",
                            !.fp = id, !.rotated = rotated]
              /\ generated' = [generated EXCEPT ![id] = fingerprint]
              /\ out' = [op |-> op, fingerprint |-> fingerprint,
                         url |-> url, before |-> Headers(request.baseHeaders),
                         lowerCase |-> lowerCase, headers |-> headers,
                         threw |-> FALSE]
    /\ request' = [request EXCEPT !.pc = "returned"]
    /\ UNCHANGED <<now, ticks, waits, nextWait, ALL_USER_AGENTS>>
    /\ UNCHANGED clientVars

\* getTwitterApiHeaders after its await (lines 1420-1450)
getTwitterApiHeadersReturn ==
    \E fields \in FollowedFingerprints(ALL_USER_AGENTS),
       lowerCase \in BOOLEAN, purpose \in BOOLEAN, forwarded \in BOOLEAN :
        withCurrentFingerprint("getTwitterApiHeaders", fields,
            Url("https://", "api.twitter.com"), lowerCase,
            twitterApiHeaders(request.baseHeaders, fields, lowerCase, purpose, forwarded))

\* getTwitterWebHeaders after its await (lines 1459-1469)
getTwitterWebHeadersReturn ==
    \E fields \in FollowedFingerprints(ALL_USER_AGENTS), lowerCase \in BOOLEAN :
        withCurrentFingerprint("getTwitterWebHeaders", fields,
            Url("https://", "twitter.com"), lowerCase,
            twitterWebHeaders(request.baseHeaders, fields, lowerCase))

\* a waitForRequest call made before the call that is followed
earlierWaitForRequest(w) ==
    /\ request = NoRequest
    /\ w <= MaxEarlier
    /\ waitForRequestBegin(w)

\* one call of getTwitterApiHeaders or getTwitterWebHeaders, the waitForRequest
\* calls before it, and their timers
HeadersNext ==
    \/ \E w \in Waits : earlierWaitForRequest(w)
    \/ \E baseHeaders \in BaseHeaders : getTwitterApiHeadersBegin(baseHeaders)
    \/ \E baseHeaders \in BaseHeaders : getTwitterWebHeadersBegin(baseHeaders)
    \/ \E w \in Waits : timerDue(w)
    \/ \E w \in Waits : waitForRequestResume(w)
    \/ getTwitterApiHeadersReturn
    \/ getTwitterWebHeadersReturn

\* the rotateBrowserFingerprint() calls and steps of the clock since the call that
\* is followed began (each rotation makes one fingerprint object)
overlapping == ticks + (nextFp - request.fp - 1)

\* a rotateBrowserFingerprint() call made while the call that is followed awaits
rotateWhileAwaited ==
    /\ request.pc = "await_waitForRequest"
    /\ overlapping < MaxOverlapping
    /\ callRotateFingerprint

\* time passes while the call that is followed awaits
tickWhileAwaited(d) ==
    /\ request.pc = "await_waitForRequest"
    /\ overlapping < MaxOverlapping
    /\ tick(d)

\* one call of getTwitterApiHeaders or getTwitterWebHeaders, overlapping with
\* rotateBrowserFingerprint() calls, other waitForRequest calls and the clock
RotatingNext ==
    \/ \E w \in Waits : earlierWaitForRequest(w)
    \/ \E baseHeaders \in BaseHeaders : getTwitterApiHeadersBegin(baseHeaders)
    \/ \E baseHeaders \in BaseHeaders : getTwitterWebHeadersBegin(baseHeaders)
    \/ \E w \in Waits : timerDue(w)
    \/ \E w \in Waits : waitForRequestResume(w)
    \/ getTwitterApiHeadersReturn
    \/ getTwitterWebHeadersReturn
    \/ rotateWhileAwaited
    \/ \E d \in WaitTickSizes : tickWhileAwaited(d)

\* the fingerprint generator and the two assemblers, called directly; the
\* assemblers keep no state, so one call of them is followed
AssemblerNext ==
    \/ callGenerateBrowserFingerprint
    \/ callApplyBrowserHeaders
    \/ callApplyAdvancedBrowserHeaders

(***************************************************************************)
(* Properties of the fingerprint manager (checked under SpecManager, those *)
(* of waitForRequest under SpecWait).                                      *)
(***************************************************************************)
\* the steps in which getCurrentFingerprint is called, directly or by getRequestDelay
LookupOps == {"getCurrentFingerprint", "getRequestDelay", "waitForRequest"}
\* the steps in which getRequestDelay is called, directly or by waitForRequest
DelayOps == {"getRequestDelay", "waitForRequest"}

\* C5: getCurrentFingerprint installs a newly generated fingerprint if and only if
\* none is set or now - since > 300000; then it sets the counter to 0 and since to
\* now; otherwise (also at exactly 300000) it returns the held fingerprint and
\* changes no manager state.
C5_CurrentRotatesIffDue ==
    [][ret'.op = "getCurrentFingerprint" =>
          LET due == currentFingerprint = NoFingerprint \/ now - lastRotation > 300000
          IN  /\ (currentFingerprint' # currentFingerprint) <=> due
              /\ due => /\ currentFingerprint'.id \notin 0..(nextFp - 1)
                        /\ ret'.fp = currentFingerprint'.id
                        /\ requestCount' = 0
                        /\ lastRotation' = now
              /\ ~due => /\ ret'.fp = currentFingerprint.id
                         /\ currentFingerprint' = currentFingerprint
                         /\ lastRotation' = lastRotation
                         /\ requestCount' = requestCount
                         /\ lastRequestTime' = lastRequestTime]_vars

\* getCurrentFingerprint was called exactly 300000 ms after the rotation, with
\* requests counted, and returned the held fingerprint
C5_Witness ==
    /\ ret.op = "getCurrentFingerprint"
    /\ ~ret.rotated
    /\ now - lastRotation = 300000
    /\ requestCount > 0

\* C6 as stated: two getCurrentFingerprint calls less than 300000 ms apart, with no
\* rotateFingerprint() between them, return the identical instance; a call made after
\* the interval has elapsed returns a different instance.  (`handed` is the preceding
\* call; the instances are never reused, so pairs of successive calls decide it.)
C6_Original ==
    [][(ret'.op \in LookupOps /\ handed # NotHanded) =>
          /\ handed'.at - handed.at < 300000 => handed'.fp = handed.fp
          /\ handed'.at - handed.since > 300000 => handed'.fp # handed.fp]_vars

\* C6 as amended: two getCurrentFingerprint calls, with no rotateFingerprint()
\* between them, return the identical instance if the later one is made no more than
\* 300000 ms after that instance was installed; a call made more than 300000 ms after
\* the installation of the instance last returned returns a different, new instance.
C6_SameInstanceWithinInterval ==
    [][(ret'.op \in LookupOps /\ handed # NotHanded) =>
          /\ handed'.at - handed.since <= 300000 => handed'.fp = handed.fp
          /\ handed'.at - handed.since > 300000 =>
                (handed'.fp # handed.fp /\ handed'.fp \notin 0..(nextFp - 1))]_vars

\* a getCurrentFingerprint call found the interval of an earlier fingerprint elapsed
\* and returned a new one
C6_Witness ==
    /\ ret.op = "getCurrentFingerprint"
    /\ ret.rotated
    /\ ret.fp > 1
    /\ handed.fp = ret.fp

\* C7: the counter equals the number of getRequestDelay calls whose delay was
\* computed from the held fingerprint, the call that installed it included, and the
\* n-th of them has the count term min(50 * n, 1000).
C7_CounterCountsDelayCalls ==
    /\ requestCount = delayCalls.n
    /\ ret.op \in DelayOps =>
          ret.term = (IF 50 * delayCalls.n < 1000 THEN 50 * delayCalls.n ELSE 1000)

\* C8: in every step that replaces the held fingerprint the counter is 0 afterwards;
\* in every other step it is unchanged or incremented by exactly 1.
C8_RotationResetsCounter ==
    [][/\ currentFingerprint' # currentFingerprint => requestCount' = 0
       /\ currentFingerprint' = currentFingerprint =>
             requestCount' \in {requestCount, requestCount + 1}]_vars

\* a getRequestDelay call found the interval elapsed: the fingerprint was replaced
\* and the counter, incremented by the call, is 0
C8_Witness ==
    /\ ret.op = "getRequestDelay"
    /\ ret.rotated
    /\ ret.fp > 1
    /\ requestCount = 0

\* C9: over consecutive getRequestDelay calls under one fixed fingerprint the count
\* term never decreases, grows by exactly 50 per call until it is 1000, which it is
\* from the 20th call on, and is never greater than 1000.
C9_MonotonicPenalty ==
    /\ [][(ret'.op \in DelayOps /\ currentFingerprint' = currentFingerprint) =>
             /\ ret'.term >= delayCalls.term
             /\ ret'.term = (IF delayCalls.term + 50 < 1000 THEN delayCalls.term + 50
                             ELSE 1000)
             /\ ret'.term = 1000 <=> delayCalls'.fixed >= 20]_vars
    /\ [](ret.term <= 1000)

\* the 21st call under one fingerprint: the term was 1000 and is 1000
C9_Witness ==
    /\ ret.op = "getRequestDelay"
    /\ delayCalls.fixed = 21
    /\ ret.term = 1000

\* C10: a waitForRequest call invoked with zero time elapsed since the preceding
\* call ended (timeSinceLastRequest = 0) ends no earlier than the requiredDelay it
\* computed at its invocation after that invocation.
C10_BackToBackWaits ==
    (ret.ended /\ ret.since = 0) => (ret.delay > 0 /\ ret.waited >= ret.delay)

\* such a call ended exactly when its timer was due
C10_Witness ==
    /\ ret.op = "resume"
    /\ ret.since = 0
    /\ ret.waited = ret.delay
    /\ lastRequestTime = now

\* C11: the counter is incremented in the step in which waitForRequest is invoked
\* (the synchronous start of getTwitterApiHeaders / getTwitterWebHeaders), also while
\* earlier calls are suspended: an invocation that does not replace the fingerprint
\* raises the counter by exactly 1 and computes its count term from the raised
\* value; no later step of a call, in whatever order the calls complete, changes
\* the counter.  So overlapping calls use consecutive counter values in the order
\* of their invocation.
C11_CountedAtInvocation ==
    [][/\ (ret'.op = "waitForRequest" /\ currentFingerprint' = currentFingerprint) =>
             /\ requestCount' = requestCount + 1
             /\ ret'.term = (IF 50 * requestCount' < 1000 THEN 50 * requestCount'
                             ELSE 1000)
       /\ (ret'.op \in {"resume", "time"}) =>
             (requestCount' = requestCount /\ currentFingerprint' = currentFingerprint)
      ]_vars

\* two calls are suspended at once, the later one invoked with the counter at 2 and
\* due to complete before the earlier one
C11_Witness ==
    /\ waits[2].pc = "suspended"
    /\ waits[3].pc = "suspended"
    /\ waits[3].at + waits[3].waitTime < waits[2].at + waits[2].waitTime
    /\ ret.op = "waitForRequest"
    /\ requestCount = 2
    /\ ret.term = 100

\* C12: rotateFingerprint(), whatever the manager's state, installs a newly
\* generated fingerprint and returns it, sets since to now and the counter to 0 and
\* leaves the last-request timestamp as it was; a lookup made no more than 300000 ms
\* after the installation of the held fingerprint returns that fingerprint and
\* replaces nothing.
C12_RotateInstallsNew ==
    [][/\ ret'.op = "rotateFingerprint" =>
             /\ currentFingerprint' # NoFingerprint
             /\ currentFingerprint'.id \notin 0..(nextFp - 1)
             /\ ret'.fp = currentFingerprint'.id
             /\ lastRotation' = now
             /\ requestCount' = 0
             /\ lastRequestTime' = lastRequestTime
       /\ (ret'.op \in LookupOps /\ currentFingerprint # NoFingerprint
              /\ now - lastRotation <= 300000) =>
             /\ ret'.fp = currentFingerprint.id
             /\ currentFingerprint' = currentFingerprint
             /\ lastRotation' = lastRotation]_vars

\* the only waitForRequest call made so far looked the fingerprint up exactly
\* 300000 ms after rotateFingerprint() had installed it, and got it
C12_Witness ==
    /\ ret.op = "waitForRequest"
    /\ nextWait = 2
    /\ ~ret.rotated
    /\ ret.fp = currentFingerprint.id
    /\ now - lastRotation = 300000

\* C27: a fingerprint that a lookup (getCurrentFingerprint, directly or for a
\* header request or a delay) returns is the held one and was installed, which is
\* when it was generated, no more than 300000 ms before the lookup returns it.
C27_NeverOlderThanInterval ==
    /\ handed # NotHanded =>
          /\ handed.at - handed.since <= 300000
          /\ handed.at >= handed.since
    /\ ret.op \in LookupOps =>
          /\ ret.fp = currentFingerprint.id
          /\ currentFingerprint # NoFingerprint
          /\ now - lastRotation <= 300000

\* getCurrentFingerprint returned the held fingerprint exactly 300000 ms after it
\* was generated, having kept it over an earlier lookup
C27_Witness ==
    /\ ret.op = "getCurrentFingerprint"
    /\ ~ret.rotated
    /\ handed.fp = currentFingerprint.id
    /\ handed.at - handed.since = 300000
    /\ ticks >= 2

\* C28 as stated: under every interleaving of overlapping waitForRequest calls, a
\* call ends no earlier than the requiredDelay it computed after the latest earlier
\* end of a waitForRequest call (lastRequestTime as it is when the call ends).
C28_PacedCompletions ==
    [][ret'.ended => now' - lastRequestTime >= ret'.delay]_vars

\* C28 as amended: under every interleaving, a call ends no earlier than the
\* requiredDelay it computed after the latest end of a waitForRequest call that
\* preceded its invocation (lastRequestTime as it was when the call was invoked:
\* the call ends `waited` ms after its invocation, which was `since` ms after that
\* end); the ends of calls that overlap are not spaced from one another.
C28_DelayFromInvocation ==
    ret.ended => ret.waited + ret.since >= ret.delay

\* a suspended call has ended, its delay counted from the end that preceded its
\* invocation, while the timer of another suspended call is due already: that call
\* ends next, in the same millisecond
C28_Witness ==
    /\ ret.op = "resume"
    /\ ret.ended
    /\ ret.waited + ret.since = ret.delay
    /\ lastRequestTime = now
    /\ \E w \in Waits : /\ waits[w].pc = "suspended"
                         /\ waits[w].requiredDelay > 0
                         /\ now >= waits[w].at + waits[w].waitTime

(***************************************************************************)
(* Properties of the fingerprint generator and of the header assemblers    *)
(* (checked under SpecAssembler).                                          *)
(***************************************************************************)
\* C16: in every fingerprint generateBrowserFingerprint returns, whichever agent of
\* the Chrome, Firefox, Safari and mobile pools it drew, secChUa is non-empty if and
\* only if the user-agent string contains Chrome/<version>; it is empty for every
\* agent of the Firefox and Safari pools and non-empty for every agent of the
\* Chrome pool.
C16_SecChUaIffChromium ==
    out.op = "generateBrowserFingerprint" =>
        /\ out.fingerprint.secChUa # "" <=> "Chrome/" \in out.fingerprint.userAgent.has
        /\ out.fingerprint.userAgent \in FIREFOX_USER_AGENTS \cup SAFARI_USER_AGENTS
              => out.fingerprint.secChUa = ""
        /\ out.fingerprint.userAgent \in CHROME_USER_AGENTS
              => out.fingerprint.secChUa # ""

\* a fingerprint was generated for an agent that names Safari and no Chrome/<version>
\* (a desktop Safari or an iPhone), and its secChUa is empty
C16_Witness ==
    /\ out.op = "generateBrowserFingerprint"
    /\ "Safari" \in out.fingerprint.userAgent.has
    /\ "Chrome/" \notin out.fingerprint.userAgent.has
    /\ out.fingerprint.secChUa = ""

\* C17: in every fingerprint generateBrowserFingerprint returns, secChUaMobile is
\* "?1" if and only if the agent drawn is one of the mobile pool (iPhone or
\* Android), and "?0" for every agent of the Chrome, Firefox and Safari pools.
C17_MobileIffMobileAgent ==
    out.op = "generateBrowserFingerprint" =>
        /\ out.fingerprint.secChUaMobile = "?1"
              <=> out.fingerprint.userAgent \in MOBILE_USER_AGENTS
        /\ out.fingerprint.userAgent \in DESKTOP_USER_AGENTS
              => out.fingerprint.secChUaMobile = "?0"
        /\ out.fingerprint.secChUaMobile \in {"?0", "?1"}

\* a fingerprint was generated for an iPhone agent, and its secChUaMobile is "?1"
C17_Witness ==
    /\ out.op = "generateBrowserFingerprint"
    /\ out.fingerprint.userAgent \in MOBILE_USER_AGENTS
    /\ "iPhone" \in out.fingerprint.userAgent.has
    /\ out.fingerprint.secChUaMobile = "?1"

\* the calls of the two assemblers
AssemblerOps == {"applyBrowserHeaders", "applyAdvancedBrowserHeaders"}

\* the header set holds all / none of the three Sec-Fetch-* headers
HasSecFetch(h) ==
    /\ headersHas(h, "Sec-Fetch-Dest")
    /\ headersHas(h, "Sec-Fetch-Mode")
    /\ headersHas(h, "Sec-Fetch-Site")
HasNoSecFetch(h) ==
    /\ ~headersHas(h, "Sec-Fetch-Dest")
    /\ ~headersHas(h, "Sec-Fetch-Mode")
    /\ ~headersHas(h, "Sec-Fetch-Site")

\* C18: whatever the fingerprint and the header set an assembler is applied to, the
\* header set afterwards holds Sec-Fetch-Dest, Sec-Fetch-Mode and Sec-Fetch-Site when
\* the target starts with https://, and none of the three when it starts with http://.
C18_SecFetchIffHttps ==
    out.op \in AssemblerOps =>
        /\ startsWith(out.url, "https://") => HasSecFetch(out.headers)
        /\ startsWith(out.url, "http://") => HasNoSecFetch(out.headers)

\* the order of the claim, as the header set names its keys
CanonicalKeys ==
    <<"host", "user-agent", "accept", "accept-language", "accept-encoding", "dnt",
      "connection", "upgrade-insecure-requests", "sec-fetch-dest", "sec-fetch-mode",
      "sec-fetch-site", "sec-ch-ua", "sec-ch-ua-mobile", "sec-ch-ua-platform",
      "cache-control", "pragma">>

\* the keys of h are those of CanonicalKeys that h holds, in that order
InCanonicalOrder(h) ==
    LET held(k) == headersHas(h, k)
    IN  headerKeys(h) = SelectSeq(CanonicalKeys, held)

\* C19: for every fingerprint and target, the keys of the header set that
\* applyAdvancedBrowserHeaders assembles from an empty one are in the order Host,
\* User-Agent, Accept, Accept-Language, Accept-Encoding, DNT, Connection,
\* Upgrade-Insecure-Requests, Sec-Fetch-Dest/Mode/Site, Sec-CH-UA/-Mobile/-Platform,
\* Cache-Control, Pragma (those left out that were not set), also when the
\* lower-case User-Agent deviation was applied.
C19_CanonicalOrder ==
    (out.op = "applyAdvancedBrowserHeaders" /\ out.before = <<>>) =>
        InCanonicalOrder(out.headers)

\* the header set holds all / none of the three Sec-CH-UA* headers
HasSecChUa(h) ==
    /\ headersHas(h, "Sec-CH-UA")
    /\ headersHas(h, "Sec-CH-UA-Mobile")
    /\ headersHas(h, "Sec-CH-UA-Platform")
HasNoSecChUa(h) ==
    /\ ~headersHas(h, "Sec-CH-UA")
    /\ ~headersHas(h, "Sec-CH-UA-Mobile")
    /\ ~headersHas(h, "Sec-CH-UA-Platform")

\* C20: whatever baseHeaders the caller supplied, the header set returned by
\* getTwitterApiHeaders or getTwitterWebHeaders holds Sec-CH-UA, Sec-CH-UA-Mobile and
\* Sec-CH-UA-Platform when the secChUa of the current fingerprint is non-empty, and
\* none of the three when it is empty; it is non-empty for the agents with
\* Chrome/<version> only.
C20_SecChUaHeadersIffChromium ==
    out.op \in HeaderOps =>
        /\ out.fingerprint.secChUa # "" => HasSecChUa(out.headers)
        /\ out.fingerprint.secChUa = "" => HasNoSecChUa(out.headers)
        /\ out.fingerprint.secChUa # "" <=> "Chrome/" \in out.fingerprint.userAgent.has

\* the entries of h whose name is `name`, names compared case-insensitively
entriesOf(h, name) == {i \in 1..Len(h) : h[i][1] = normalizeHeaderName(name)}

\* C21: every header set an assembler has assembled (a call that returned), whatever
\* it held before, holds exactly one User-Agent entry (names compared
\* case-insensitively), whose value is
\* the userAgent of the fingerprint, whether the lower-case deviation was applied or
\* not: the deviation neither adds a second entry nor loses the entry.
C21_OneUserAgent ==
    (out.op \in AssemblerOps /\ ~out.threw) =>
        /\ Cardinality(entriesOf(out.headers, "User-Agent")) = 1
        /\ headersGet(out.headers, "User-Agent") = out.fingerprint.userAgent.text

\* applyAdvancedBrowserHeaders was applied to a header set that held a user-agent
\* entry of the caller, the lower-case deviation was applied, and the set holds the
\* fingerprint's user agent, once
C21_Witness ==
    /\ out.op = "applyAdvancedBrowserHeaders"
    /\ out.lowerCase
    /\ headersGet(out.before, "User-Agent") = "curl/8.4.0"
    /\ Cardinality(entriesOf(out.headers, "User-Agent")) = 1
    /\ headersGet(out.headers, "User-Agent") = out.fingerprint.userAgent.text

\* C24: the pool from which generateBrowserFingerprint draws is decided on each
\* call: after a call, the next call can draw from the pool without the mobile
\* agents and it can draw from the pool with them, whatever the pool of the call
\* before was.
C24_PoolDecidedPerCall ==
    out.op = "generateBrowserFingerprint" =>
        /\ ENABLED (callGenerateBrowserFingerprint
                      /\ ALL_USER_AGENTS' = DESKTOP_USER_AGENTS)
        /\ ENABLED (callGenerateBrowserFingerprint
                      /\ ALL_USER_AGENTS' = DESKTOP_USER_AGENTS \cup MOBILE_USER_AGENTS)

\* C25: in every fingerprint generateBrowserFingerprint returns for an agent without
\* Chrome/<version> (Firefox, desktop Safari, iPhone Safari), secChUa and
\* secChUaPlatform are both empty.
C25_NonChromiumHintsEmpty ==
    (out.op = "generateBrowserFingerprint"
        /\ "Chrome/" \notin out.fingerprint.userAgent.has) =>
        /\ out.fingerprint.secChUa = ""
        /\ out.fingerprint.secChUaPlatform = ""

\* C30: in every fingerprint generateBrowserFingerprint returns for an agent with
\* Chrome/<version>, secChUaPlatform names the operating system of the agent:
\* "Windows" for the Windows NT agents, "macOS" for the Macintosh agents, "Android"
\* for the Android agents and "Linux" for the other (X11) Linux agents.
C30_PlatformNamesSystem ==
    (out.op = "generateBrowserFingerprint"
        /\ "Chrome/" \in out.fingerprint.userAgent.has) =>
        LET has == out.fingerprint.userAgent.has
            platform == out.fingerprint.secChUaPlatform
        IN  /\ ("Windows NT 10.0" \in has \/ "Windows NT 11.0" \in has)
                  => platform = "\"Windows\""
            /\ "Macintosh" \in has => platform = "\"macOS\""
            /\ "Android" \in has => platform = "\"Android\""
            /\ ("Linux" \in has /\ "Android" \notin has) => platform = "\"Linux\""

\* C26: applyAdvancedBrowserHeaders raises for no fingerprint and no target
\* argument: not for an https URL, an http URL, an absent one, or a string that is
\* not an absolute URL.
C26_NoErrorConditions ==
    out.op = "applyAdvancedBrowserHeaders" => ~out.threw

(***************************************************************************)
(* Properties of getTwitterApiHeaders / getTwitterWebHeaders (checked      *)
(* under SpecHeaders).                                                     *)
(***************************************************************************)
\* the names getTwitterApiHeaders sets or may set for a fingerprint
SetForApi(fingerprint) ==
    LET ordered == orderedHeaders(fingerprint, Url("https://", "api.twitter.com"))
    IN  {normalizeHeaderName(ordered[i][1]) :
            i \in {k \in 1..Len(ordered) : ordered[k][2] # ""}}
        \cup {"referer", "origin", "x-twitter-active-user", "x-twitter-client-language",
              "accept", "x-requested-with", "x-client-transaction-id", "purpose",
              "x-forwarded-for"}

\* C22: whatever baseHeaders the caller supplied, the header set getTwitterApiHeaders
\* returns has Referer https://twitter.com/, Origin https://twitter.com,
\* X-Twitter-Active-User yes, X-Twitter-Client-Language en, X-Requested-With
\* XMLHttpRequest, Accept the API content type (neither the fingerprint's accept nor
\* the caller's), and as X-Client-Transaction-Id the sessionId of the fingerprint
\* whose userAgent is its User-Agent; the base headers whose names the call does not
\* set are in it with their values.
C22_ApiIdentityHeaders ==
    out.op = "getTwitterApiHeaders" =>
        /\ headersGet(out.headers, "Referer") = "https://twitter.com/"
        /\ headersGet(out.headers, "Origin") = "https://twitter.com"
        /\ headersGet(out.headers, "X-Twitter-Active-User") = "yes"
        /\ headersGet(out.headers, "X-Twitter-Client-Language") = "en"
        /\ headersGet(out.headers, "X-Requested-With") = "XMLHttpRequest"
        /\ headersGet(out.headers, "Accept") = "application/json, text/plain, */*"
        /\ headersGet(out.headers, "Accept") # out.fingerprint.accept
        /\ \E fingerprint \in FollowedFingerprints(ALL_USER_AGENTS) :
              /\ headersGet(out.headers, "User-Agent") = fingerprint.userAgent.text
              /\ headersGet(out.headers, "X-Client-Transaction-Id") = fingerprint.sessionId
              /\ fingerprint = out.fingerprint
        /\ \A i \in 1..Len(out.before) :
              out.before[i][1] \notin SetForApi(out.fingerprint) =>
                  \E k \in 1..Len(out.headers) : out.headers[k] = out.before[i]

\* getTwitterApiHeaders was handed an Accept of the caller's and returned the API
\* content type, with the session id of the fingerprint
C22_Witness ==
    /\ out.op = "getTwitterApiHeaders"
    /\ headersGet(out.before, "Accept") = "text/plain"
    /\ headersGet(out.headers, "Accept") = "application/json, text/plain, */*"
    /\ headersGet(out.headers, "X-Client-Transaction-Id") = out.fingerprint.sessionId
    /\ out.fingerprint.sessionId \in SessionIds

(***************************************************************************)
(* Properties of the request methods (checked under SpecRequests).         *)
(***************************************************************************)
\* C23: getProfile, getEntityIdByScreenName, getScreenNameByUserId and getUserTweets
\* issue exactly one request per call; a call whose request resolved with a failure
\* throws the error that result carries and returns no value, a call whose request
\* succeeded returns; no step of such a call issues the request again or assigns an
\* identity slot.
C23_FailureSurfaced ==
    /\ [](\A c \in Calls :
            (calls[c].op \in RequestOps /\ calls[c].pc \in Ended) =>
                /\ calls[c].idx = 1
                /\ (calls[c].res \in RequestApiResults /\ ~calls[c].res.success) =>
                      /\ calls[c].pc = "threw"
                      /\ calls[c].step = calls[c].res.err
                      /\ calls[c].step \in ApiErrors
                /\ calls[c].pc = "returned" => calls[c].res.success)
    /\ [][\A c \in Calls :
            (calls'[c] # calls[c] /\ calls'[c].op \in RequestOps) =>
                /\ auth' = auth /\ authTrends' = authTrends
                /\ kind' = kind /\ jar' = jar
                /\ calls'[c].idx = 1]_vars

\* a getProfile call made while a User was in the slots got a failed result and
\* threw its error; the slots hold the User still
C23_Witness ==
    \E c \in Calls :
        /\ calls[c].op = "getProfile" /\ calls[c].pc = "threw"
        /\ calls[c].res = [success |-> FALSE, value |-> "none",
                           err |-> "AuthenticationError"]
        /\ calls[c].step = "AuthenticationError"
        /\ kind[auth] = "User" /\ auth = authTrends

\* C29: in every interleaving of a getTwitterApiHeaders / getTwitterWebHeaders
\* call with rotateBrowserFingerprint() calls, other waitForRequest calls and the
\* clock, the fingerprint object the call renders into the headers it returns
\* (line 1420 / 1459) is the one whose requestDelay its waitForRequest read.
C29_DelayAndHeadersOfOneFingerprint ==
    [][(request.pc = "await_waitForRequest" /\ request'.pc = "returned") =>
           /\ ret'.fp = request.fp
           /\ out'.fingerprint = generated'[request.fp]]_vars

\* C37: every waitForRequest call that suspends ends; a call suspends at most
\* once, for requiredDelay - timeSinceLastRequest ms (a finite, positive time),
\* and records lastRequestTime when it ends; while a call is suspended
\* getCurrentFingerprint(), rotateFingerprint() and further waitForRequest() calls
\* can run (as far as the model's bounds on calls and fingerprints allow).
C37_EventuallyCompletes ==
    /\ \A w \in Waits : (waits[w].pc = "suspended") ~> (waits[w].pc = "done")
    /\ [](\A w \in Waits : waits[w].pc = "suspended" =>
            /\ waits[w].waitTime = waits[w].requiredDelay - waits[w].timeSinceLastRequest
            /\ waits[w].waitTime > 0
            /\ nextFp \in Fps =>
                  /\ ENABLED callGetCurrentFingerprint
                  /\ ENABLED callRotateFingerprint
                  /\ (nextWait \in Waits /\ requestCount < MaxCount) =>
                        ENABLED waitForRequestBegin(nextWait))
    /\ [][\A w \in Waits :
            /\ waits[w].pc = "suspended" =>
                  \/ waits'[w] = waits[w]
                  \/ waits'[w].pc = "done" /\ lastRequestTime' = now'
            /\ waits[w].pc = "done" => waits'[w].pc = "done"]_vars

\* a suspended waitForRequest call has ended while another call, invoked during
\* its suspension, is suspended still
C37_Witness ==
    /\ ret.op = "resume" /\ ret.ended /\ ret.waited > 0
    /\ lastRequestTime = now
    /\ \E w, v \in Waits :
          /\ w < v
          /\ waits[w].pc = "done"
          /\ waits[v].pc = "suspended"
          /\ waits[v].at < now

(***************************************************************************)
(* Specifications: a Client and its calls; the fingerprint manager.        *)
(***************************************************************************)
Init == ClientInit /\ supplied = <<>> /\ ManagerInit /\ HeaderIdle

InitAssembler == ClientInit /\ supplied = <<>> /\ ManagerInit /\ HeaderInit

\* a Client, new or with cookies set, and the array that will be handed to setCookies
InitCookies ==
    /\ ClientInit \/ \E cookies \in CookieLists : ClientWithCookies(cookies)
    /\ supplied \in CookieLists
    /\ ManagerInit
    /\ HeaderIdle

Spec == Init /\ [][Next]_vars

SpecManager == Init /\ [][ManagerNext]_vars

SpecWait == Init /\ [][WaitNext]_vars

\* the timer of line 1345 fires and the call it resumes runs on: the event loop
\* leaves no due timer and no resolved await waiting for ever
TimersFire ==
    \A w \in Waits : WF_vars(timerDue(w) \/ waitForRequestResume(w))

SpecWaitFair == Init /\ [][PacedNext]_vars /\ TimersFire

SpecAssembler == InitAssembler /\ [][AssemblerNext]_vars

SpecHeaders == InitAssembler /\ [][HeadersNext]_vars

SpecRotating == InitAssembler /\ [][RotatingNext]_vars

SpecLoggedIn == Init /\ [][LoggedInNext]_vars

SpecCookies == InitCookies /\ [][CookiesNext]_vars

SpecRequests == Init /\ [][RequestsNext]_vars

SpecJars == InitCookies /\ [][JarsNext]_vars

SpecLogout == InitCookies /\ [][LogoutNext]_vars

SpecQuotes == Init /\ [][QuotesNext]_vars

SpecIterator == Init /\ [][IteratorNext]_vars

SpecSend == Init /\ [][SendNext]_vars

====
